---- MODULE Spec2Model ----
(***************************************************************************)
(* State-machine model of the semantic code indexer's ingest and search    *)
(* pipeline: BatchProcessor.processFiles / processFile, VectorStore (the   *)
(* SQLite tables code_blocks, code_fts, vector_map, files and the in-RAM   *)
(* HNSW index), CacheManager (HashCache), StateManager, IndexManager       *)
(* (indexWorkspace, filterChangedFiles, watch, dispose), FileWatcher       *)
(* (debounce) and the semantic channel of HybridSearch / SemanticSearch.   *)
(*                                                                         *)
(* Every await of the TypeScript source is a separate action; the code    *)
(* between two awaits runs to completion on the single JavaScript thread   *)
(* and is one action.                                                      *)
(*                                                                         *)
(* Left out: wall-clock values (lastIndexed, created_at, Date.now()),      *)
(* progress percentages, language statistics and, in the indexing runs,    *)
(* the embedding vectors and the embedder's cache; OllamaEmbedder is       *)
(* modelled on its own under SpecEmbed.  A SHA-256 digest is the tagged    *)
(* text, so equal digests mean equal text.  A file is a sequence of        *)
(* top-level function declarations, one line each.                         *)
(***************************************************************************)
EXTENDS Integers, Sequences, FiniteSets, Bags, TLC

\* ------------------------------------------------------------------ bounds
\* Number of file-system modifications (write / touch / unlink) explored.
MaxEdits == 2
\* Number of launches of the `index` CLI command explored.
MaxRuns == 2
\* Number of search commands explored.
MaxSearches == 1
\* Number of saves of a watched file explored in a burst of saves.
MaxBurst == 3
\* Largest initial capacity of the ANN index explored.
MaxCapacity == 4
\* Number of addVector calls explored on one index.
MaxVectors == 6
\* Longest list of texts handed to embedBatch.
MaxTexts == 3
\* Number of embedBatch calls explored on one embedder.
MaxEmbedCalls == 2
\* Texts per round of embedBatch (batchSize, 32 in the code).
EmbedBatchSize == 2
\* Longest file handed to the chunker on its own, in lines.
MaxLines == 4
\* Chunking options, scaled down: targetTokens (512), maxTokens (2048) and
\* overlapTokens (50) of the defaults.
ChunkTargetTokens == 2
ChunkMaxTokens == 4
ChunkOverlapTokens == 1
\* Longest list either search channel returns, and the largest `limit`.
MaxHits == 2
\* Number of searches explored when the search_stats table is followed.
MaxStatSearches == 2

\* ------------------------------------------------------------ environment
\* Workspace files, named by their path relative to the workspace root.
Files == {"a.ts", "b.ts"}
\* The file an editor works on while the indexer runs.
Edited == {"a.ts"}

\* A file's text: a sequence of lines.  A non-empty line is a one-line
\* function declaration (one semantic node of the parse tree), "" is a blank
\* line.
Contents == { <<"fnA">>, <<"fnA", "fnA">>, <<"fnB">> }

\* A missing file (reads fail with ENOENT).  Never a real text: the lines of
\* an empty file are <<"">>.
NoFile == << >>
\* JavaScript `undefined` / a missing row or file.
NoEntry == [absent |-> TRUE]

\* A path as a caller hands it to processFiles: the scanner yields paths
\* relative to the workspace (and the CLI runs with cwd = workspace), the
\* chokidar watcher yields absolute paths.
Path(form, name) == [form |-> form, name |-> name]

\* path.relative(workspacePath, filePath)
Relative(p) == Path("rel", p.name)

\* crypto.createHash('sha256').update(content).digest('hex'): modelled as an
\* injective tagging of the hashed text (no collisions within the bounds).
Sha256(text) == <<"sha256", text>>

\* ------------------------------------------------------------------ chunker
\* ChunkingStrategy.generateId: first 16 hex chars of the SHA-256 of
\* `${filePath}:${startLine}:${endLine}:${blockType}:${chunkIndex}`.
GenerateId(filePath, startLine, endLine, blockType, chunkIndex) ==
  [ filePath |-> filePath, startLine |-> startLine, endLine |-> endLine,
    blockType |-> blockType, chunkIndex |-> chunkIndex ]

\* ChunkingStrategy.extractNodeContent: lines.slice(startLine, endLine + 1)
ExtractNodeContent(content, startRow, endRow) ==
  SubSeq(content, startRow + 1, endRow + 1)

\* ChunkingStrategy.createSemanticBlock for the one-line node on 0-based
\* row `row` (below maxTokens, so never split).
CreateSemanticBlock(filePath, content, row) ==
  [ id          |-> GenerateId(filePath, row, row, "function_declaration", 0),
    filePath    |-> filePath,
    startLine   |-> row + 1,
    endLine     |-> row + 1,
    content     |-> ExtractNodeContent(content, row, row),
    contentHash |-> Sha256(ExtractNodeContent(content, row, row)),
    blockType   |-> "function_declaration" ]

\* ChunkingStrategy.createFileBlock
CreateFileBlock(filePath, content) ==
  [ id          |-> GenerateId(filePath, 0, Len(content), "file", 0),
    filePath    |-> filePath,
    startLine   |-> 1,
    endLine     |-> Len(content),
    content     |-> content,
    contentHash |-> Sha256(content),
    blockType   |-> "file" ]

RECURSIVE SemanticBlocksFrom(_, _, _)
SemanticBlocksFrom(filePath, content, row) ==
  IF row >= Len(content) THEN << >>
  ELSE IF content[row + 1] = ""
       THEN SemanticBlocksFrom(filePath, content, row + 1)
       ELSE <<CreateSemanticBlock(filePath, content, row)>>
              \o SemanticBlocksFrom(filePath, content, row + 1)

\* ChunkingStrategy.chunkFile: the blocks of the semantic nodes in source
\* order, or the single "file" block when there is none.
ChunkFile(filePath, content) ==
  LET blocks == SemanticBlocksFrom(filePath, content, 0)
  IN  IF Len(blocks) = 0 THEN <<CreateFileBlock(filePath, content)>> ELSE blocks

Range(s) == { s[i] : i \in 1..Len(s) }

Max(S) == CHOOSE x \in S : \A y \in S : y <= x

\* ------------------------------------------------------------ VectorStore
\* A VectorStore value `vs` gathers what the VectorStore methods read and
\* write: the cache.db tables, the nextLabel counter and the in-RAM HNSW
\* index (live labels and labels tombstoned by markDelete).
\* maxElements of the hnswConfig IndexManager and the search commands build.
MaxElements == 1000000

\* hnswIndex.initIndex(maxElements, ...): an empty index of that capacity.
InitIndex(max) == [live |-> {}, dead |-> {}, max |-> max]

EmptyHnsw == InitIndex(MaxElements)

\* hnswIndex.getCurrentCount(): the points the index holds, tombstoned ones
\* included.
GetCurrentCount(h) == Cardinality(h.live \cup h.dead)

\* hnswIndex.resizeIndex(n)
ResizeIndex(h, n) == [h EXCEPT !.max = n]

\* VectorStore.initializeHNSW on an existing vectors.hnsw: readIndex, then a
\* resize up to the configured capacity when the file's is smaller.
ReadIndex(file, max) ==
  IF file.max < max THEN ResizeIndex(file, max) ELSE file

\* A resize test that waits until the index is over its capacity.
NeedsResizeWhenOver(h) == GetCurrentCount(h) > h.max

\* The resize test of addVector: currentCount >= maxElements - 1.
NeedsResize(h) == GetCurrentCount(h) >= h.max - 1

\* The capacity step of addVector: double when the test says so.
EnsureCapacity(h) == IF NeedsResize(h) THEN ResizeIndex(h, h.max * 2) ELSE h

\* hnswIndex.markDelete(label) inside try/catch: tombstones a live label; on
\* an unknown or already deleted label the library throws and the catch
\* swallows it.
MarkDelete(h, label) ==
  IF label \in h.live
  THEN [h EXCEPT !.live = @ \ {label}, !.dead = @ \cup {label}]
  ELSE h

\* hnswIndex.addPoint(vector, label) refuses a new label when the index is
\* full ("The number of elements exceeds the specified limit").
AddPointThrows(h, label) ==
  label \notin h.live \cup h.dead /\ GetCurrentCount(h) >= h.max

\* hnswIndex.addPoint(vector, label): adds the point; on a label the index
\* already holds it overwrites the point and clears its tombstone; a full
\* index is left as it is.
AddPoint(h, label) ==
  IF AddPointThrows(h, label) THEN h
  ELSE [h EXCEPT !.live = @ \cup {label}, !.dead = @ \ {label}]

FtsRow(block) ==
  [block_id |-> block.id, file_path |-> block.filePath, content |-> block.content]

\* VectorStore.addCodeBlock: INSERT OR REPLACE INTO code_blocks removes every
\* row that conflicts on the primary key id or on UNIQUE(file_path,
\* content_hash) and inserts the new row; code_fts (an FTS5 table: no unique
\* constraint) gets one more row.
AddCodeBlock(vs, block) ==
  [vs EXCEPT
     !.code_blocks =
        { r \in @ : /\ r.id # block.id
                    /\ ~(r.filePath = block.filePath /\ r.contentHash = block.contentHash) }
        \cup {block},
     !.code_fts = @ (+) SetToBag({FtsRow(block)})]

\* VectorStore.addVector: doubles the capacity if the resize test says so,
\* takes the next label, INSERT OR REPLACE INTO vector_map (conflicts:
\* PRIMARY KEY label, UNIQUE(block_id)), then addPoint.
AddVector(vs, id) ==
  LET label == vs.nextLabel
  IN  [vs EXCEPT
         !.nextLabel = @ + 1,
         !.vector_map = { r \in @ : r.label # label /\ r.block_id # id }
                          \cup {[label |-> label, block_id |-> id]},
         !.hnsw = AddPoint(EnsureCapacity(@), label)]

\* The same call when addPoint throws (e.g. a vector of the wrong
\* dimension): the label is consumed and the mapping row written (to be
\* rolled back with the transaction), the point is not added.
AddVectorThrows(vs, id) ==
  [vs EXCEPT !.nextLabel = @ + 1, !.hnsw = EnsureCapacity(@)]

\* VectorStore.deleteBlocksByFile
DeleteBlocksByFile(vs, filePath) ==
  LET ids    == { r.id : r \in { b \in vs.code_blocks : b.filePath = filePath } }
      labels == { r.label : r \in { m \in vs.vector_map : m.block_id \in ids } }
      RECURSIVE MarkAll(_, _)
      MarkAll(h, ls) ==
        IF ls = {} THEN h
        ELSE LET l == CHOOSE x \in ls : TRUE
             IN  MarkAll(MarkDelete(h, l), ls \ {l})
  IN  [vs EXCEPT
         !.code_fts = [ e \in { x \in DOMAIN @ : x.block_id \notin ids } |-> @[e] ],
         !.hnsw = MarkAll(@, labels),
         !.vector_map = { r \in @ : r.block_id \notin ids },
         !.code_blocks = { r \in @ : r.filePath # filePath }]

\* VectorStore.addFileMetadata: INSERT OR REPLACE INTO files (PRIMARY KEY
\* file_path).
AddFileMetadata(vs, metadata) ==
  [vs EXCEPT !.files = { r \in @ : r.filePath # metadata.filePath } \cup {metadata}]

\* VectorStore.labelToBlockId
LabelToBlockId(vmap, label) ==
  LET rows == { r \in vmap : r.label = label }
  IN  IF rows = {} THEN NoEntry ELSE (CHOOSE r \in rows : TRUE).block_id

\* VectorStore.getCodeBlock
GetCodeBlock(blocks, id) ==
  LET rows == { r \in blocks : r.id = id }
  IN  IF rows = {} THEN NoEntry ELSE CHOOSE r \in rows : TRUE

\* VectorStore.initialize: nextLabel = (SELECT MAX(label) FROM vector_map ?? -1) + 1
RecoverNextLabel(vmap) ==
  IF vmap = {} THEN 0 ELSE Max({ r.label : r \in vmap }) + 1

\* The body of the insert transaction of processFile: addCodeBlock,
\* addVector, incrementBlocks per block, in order.  `acc` carries the
\* VectorStore value and the StateManager block total.
RECURSIVE InsertBlocks(_, _, _, _)
InsertBlocks(acc, blocks, i, upto) ==
  IF i > upto THEN acc
  ELSE InsertBlocks(
         [vs |-> AddVector(AddCodeBlock(acc.vs, blocks[i]), blocks[i].id),
          totalBlocks |-> acc.totalBlocks + 1],
         blocks, i + 1, upto)

\* ------------------------------------------------------------------ state
VARIABLES
  \* the workspace on disk
  fsContent,       \* file -> its lines, or NoFile
  fsMtime,         \* file -> mtimeMs of the last modification
  edits,           \* number of file-system modifications so far
  \* cache.db (SQLite, WAL): committed rows
  code_blocks,     \* set of block rows (PRIMARY KEY id, UNIQUE(file_path, content_hash))
  code_fts,        \* bag of FTS5 rows
  vector_map,      \* set of [label, block_id] rows
  files,           \* set of file-metadata rows
  \* the other files of the index directory
  hnswFile,        \* vectors.hnsw: NoEntry or the saved HNSW index
  cacheFile,       \* file-hashes.json: NoEntry or the saved HashCache
  stateFile,       \* state.json: NoEntry or the saved IndexState
  \* the indexer process (the `index` CLI command)
  pcMain,          \* "down", "indexing", "returned", "watching", "disposed"
  opts,            \* [force, watch] of the running command
  dbOpen,          \* the better-sqlite3 handle is open
  initialized,     \* OllamaEmbedder.initialized
  hnsw,            \* VectorStore.hnswIndex
  nextLabel,       \* VectorStore.nextLabel
  cache,           \* CacheManager.cache: file -> entry or NoEntry
  dirty,           \* CacheManager.dirty
  state,           \* StateManager.state
  calls,           \* the processFiles calls made so far
  tasks,           \* the processFile tasks started so far
  \* FileWatcher
  watching,        \* chokidar watcher is open
  fsEvents,        \* chokidar events not yet delivered
  timers,          \* the setTimeout timers created so far
  debounceTimers,  \* FileWatcher.debounceTimers: key -> timer index, 0 if none
  \* observation
  embedCalls,      \* embedBatch calls made by the running command
  runs,            \* log of the finished runs of the command
  runStart,        \* value of `edits` when the running command was launched
  searches,        \* number of search commands so far
  lastSearch,      \* outcome of the last search command
  \* OllamaEmbedder
  embCache,        \* OllamaEmbedder.cache: set of [hash, vector] entries
  embedOut,        \* outcome of the last embedBatch call made on its own
  \* HybridSearch
  search_stats,    \* table search_stats (PRIMARY KEY query_hash)
  hybridOut,       \* the last HybridSearch.search call: inputs and outcome
  \* ChunkingStrategy
  chunkOut,        \* the last chunkFile call made on its own: input and blocks
  \* CacheManager on its own
  cachePc,         \* "new" after the constructor, "ready" once load has returned
  saving,          \* the data of a save whose writeFile is pending, or NoEntry
  cacheOps         \* path -> the last setHash, deleteHash or clear that hit it

fsVars    == <<fsContent, fsMtime, edits>>
dbVars    == <<code_blocks, code_fts, vector_map, files>>
diskVars  == <<hnswFile, cacheFile, stateFile>>
procVars  == <<pcMain, opts, dbOpen, initialized>>
memVars   == <<hnsw, nextLabel, cache, dirty, state>>
workVars  == <<calls, tasks>>
watchVars == <<watching, fsEvents, timers, debounceTimers>>
obsVars   == <<embedCalls, runs, runStart>>
srchVars  == <<searches, lastSearch>>
embVars   == <<embCache, embedOut>>
hybVars   == <<search_stats, hybridOut>>
chunkVars == <<chunkOut>>
cacheVars == <<cachePc, saving, cacheOps>>
vars == <<fsVars, dbVars, diskVars, procVars, memVars, workVars, watchVars,
          obsVars, srchVars, embVars, hybVars, chunkVars, cacheVars>>

\* The scanner's walk order.
FileOrder == <<"a.ts", "b.ts">>

\* indexing.batchSize and indexing.concurrency of the configuration.
BatchSize == 1
Concurrency == 1

\* StateManager constructor
DefaultState == [totalFiles |-> 0, totalBlocks |-> 0, isIndexing |-> FALSE, errors |-> 0]

\* CacheManager constructor
EmptyCache == [f \in Files |-> NoEntry]

NoSearch == [class |-> "none", labels |-> {}, results |-> {}, raised |-> FALSE]

NoHybrid == [made |-> FALSE, n |-> 0]
NoChunk == [made |-> FALSE]
NoOp == [op |-> "none"]

NoEmbed == [texts |-> << >>, failed |-> {}, result |-> << >>, raised |-> FALSE]

NoBefore == [code_blocks |-> {}, code_fts |-> EmptyBag, vector_map |-> {}]

\* The VectorStore value of the current state.
VsNow ==
  [code_blocks |-> code_blocks, code_fts |-> code_fts, vector_map |-> vector_map,
   files |-> files, nextLabel |-> nextLabel, hnsw |-> hnsw]

\* Rows of the three stores that belong to file `name` (under any path form).
BlocksOf(name) == { r \in code_blocks : r.filePath.name = name }
FtsOf(name) ==
  [ e \in { x \in DOMAIN code_fts : x.file_path.name = name } |-> code_fts[e] ]
MapOf(name) == { r \in vector_map : r.block_id.filePath.name = name }
RowsOf(name) ==
  [code_blocks |-> BlocksOf(name), code_fts |-> FtsOf(name), vector_map |-> MapOf(name)]

Final == {"done", "skipped", "failed"}
ActiveTasks == { i \in DOMAIN tasks : tasks[i].pc \notin Final }
ActiveOf(c) == { i \in ActiveTasks : tasks[i].call = c }

\* The state before the first command: workspace `fs`, an empty index
\* directory, no process.
Boot(fs, h) ==
  /\ fsContent = fs
  /\ fsMtime = [f \in Files |-> 0]
  /\ edits = 0
  /\ code_blocks = {} /\ code_fts = EmptyBag /\ vector_map = {} /\ files = {}
  /\ hnswFile = NoEntry /\ cacheFile = NoEntry /\ stateFile = NoEntry
  /\ pcMain = "down" /\ opts = [force |-> FALSE, watch |-> FALSE] /\ dbOpen = FALSE
  /\ initialized = FALSE
  /\ hnsw = h /\ nextLabel = 0 /\ cache = EmptyCache /\ dirty = FALSE
  /\ state = DefaultState
  /\ calls = << >> /\ tasks = << >>
  /\ watching = FALSE /\ fsEvents = {} /\ timers = << >>
  /\ debounceTimers = [f \in Files |-> 0]
  /\ embedCalls = 0 /\ runs = << >> /\ runStart = 0
  /\ searches = 0 /\ lastSearch = NoSearch
  /\ embCache = {} /\ embedOut = NoEmbed
  /\ search_stats = {} /\ hybridOut = NoHybrid
  /\ chunkOut = NoChunk
  /\ cachePc = "new" /\ saving = NoEntry /\ cacheOps = [f \in Files |-> NoOp]

\* A workspace that holds the one file under edit.
Init ==
  \E c \in Contents :
     Boot([f \in Files |-> IF f \in Edited THEN c ELSE NoFile], EmptyHnsw)

\* A workspace of two files.
InitBatch ==
  \E ca \in Contents, cb \in {<<"fnB">>} :
     Boot([f \in Files |-> IF f \in Edited THEN ca ELSE cb], EmptyHnsw)

\* ------------------------------------------------------------ file system
\* chokidar reports a modification of a watched file.
Notify(name, kind) ==
  fsEvents' = IF watching THEN fsEvents \cup {[name |-> name, kind |-> kind]} ELSE fsEvents

\* An editor writes new text to a file (creating it if missing).
WriteFile(f, c) ==
  /\ edits < MaxEdits
  /\ fsContent[f] # c
  /\ fsContent' = [fsContent EXCEPT ![f] = c]
  /\ fsMtime' = [fsMtime EXCEPT ![f] = @ + 1]
  /\ edits' = edits + 1
  /\ Notify(f, IF fsContent[f] = NoFile THEN "add" ELSE "change")
  /\ UNCHANGED <<dbVars, diskVars, procVars, memVars, workVars, watching, timers,
                 debounceTimers, obsVars, srchVars, embVars, hybVars, chunkVars, cacheVars>>

\* The file's mtime is bumped, its bytes stay the same (a save without
\* changes); `limit` bounds the modifications explored.
Touch(f, limit) ==
  /\ edits < limit
  /\ fsContent[f] # NoFile
  /\ fsMtime' = [fsMtime EXCEPT ![f] = @ + 1]
  /\ edits' = edits + 1
  /\ Notify(f, "change")
  /\ UNCHANGED <<fsContent, dbVars, diskVars, procVars, memVars, workVars, watching,
                 timers, debounceTimers, obsVars, srchVars, embVars, hybVars, chunkVars, cacheVars>>

TouchFile(f) == Touch(f, MaxEdits)

\* The file is removed.
UnlinkFile(f) ==
  /\ edits < MaxEdits
  /\ fsContent[f] # NoFile
  /\ fsContent' = [fsContent EXCEPT ![f] = NoFile]
  /\ fsMtime' = [fsMtime EXCEPT ![f] = @ + 1]
  /\ edits' = edits + 1
  /\ Notify(f, "unlink")
  /\ UNCHANGED <<dbVars, diskVars, procVars, memVars, workVars, watching, timers,
                 debounceTimers, obsVars, srchVars, embVars, hybVars, chunkVars, cacheVars>>

\* ------------------------------------------------------------ IndexManager
\* DirectoryScanner.scan: the existing files, as workspace-relative paths.
Scan ==
  LET RECURSIVE Walk(_)
      Walk(i) ==
        IF i > Len(FileOrder) THEN << >>
        ELSE IF fsContent[FileOrder[i]] # NoFile
             THEN <<Path("rel", FileOrder[i])>> \o Walk(i + 1)
             ELSE Walk(i + 1)
  IN  Walk(1)

\* A test that trusts any cached entry, whatever its lastModified.
MaybeChangedUnlessCached(c, p) ==
  \/ fsContent[p.name] = NoFile
  \/ c[Relative(p).name] = NoEntry

\* The test of filterChangedFiles for one scanned file: changed unless the
\* cache holds an entry whose lastModified equals the file's mtime (a failing
\* stat counts as changed).
MaybeChanged(c, p) ==
  \/ fsContent[p.name] = NoFile
  \/ c[Relative(p).name] = NoEntry
  \/ c[Relative(p).name].lastModified # fsMtime[p.name]

\* IndexManager.filterChangedFiles
FilterChangedFiles(c, paths) ==
  LET RECURSIVE Keep(_)
      Keep(i) ==
        IF i > Len(paths) THEN << >>
        ELSE IF MaybeChanged(c, paths[i]) THEN <<paths[i]>> \o Keep(i + 1)
             ELSE Keep(i + 1)
  IN  Keep(1)

\* createBatches cutting nothing: the whole list as one batch.
CreateBatchesWhole(items, batchSize) ==
  IF Len(items) = 0 THEN << >> ELSE <<items>>

\* BatchProcessor.createBatches
RECURSIVE CreateBatches(_, _)
CreateBatches(items, batchSize) ==
  IF Len(items) = 0 THEN << >>
  ELSE IF Len(items) <= batchSize THEN <<items>>
  ELSE <<SubSeq(items, 1, batchSize)>>
         \o CreateBatches(SubSeq(items, batchSize + 1, Len(items)), batchSize)

\* A new processFiles call: its batches and the position of the next file of
\* the current batch the limiter has not started yet.
NewCall(origin, timer, paths) ==
  [origin |-> origin, timer |-> timer, paths |-> paths,
   batches |-> CreateBatches(paths, BatchSize), next |-> 1, returned |-> FALSE]

\* StateManager.startIndexing
StartIndexing(st) == [st EXCEPT !.isIndexing = TRUE, !.errors = 0]

\* StateManager.stopIndexing
StopIndexing(st) == [st EXCEPT !.isIndexing = FALSE]

\* The `index` command up to the first await inside processFiles: load the
\* state and the cache, VectorStore.initialize, then indexWorkspace:
\* startIndexing, scan, filter, and either an early return or processFiles.
Launch(force, watch) ==
  /\ pcMain = "down"
  /\ Len(runs) < MaxRuns
  /\ LET loadedState == IF stateFile = NoEntry THEN DefaultState ELSE stateFile
         loadedCache == IF cacheFile = NoEntry THEN EmptyCache ELSE cacheFile
         scanned     == Scan
         filesToIndex == IF force THEN scanned ELSE FilterChangedFiles(loadedCache, scanned)
     IN  /\ state' = StartIndexing(loadedState)
         /\ cache' = loadedCache
         /\ dirty' = FALSE
         /\ dbOpen' = TRUE
         /\ initialized' = TRUE
         /\ nextLabel' = RecoverNextLabel(vector_map)
         /\ hnsw' = IF hnswFile = NoEntry THEN InitIndex(MaxElements)
                    ELSE ReadIndex(hnswFile, MaxElements)
         /\ opts' = [force |-> force, watch |-> watch]
         /\ IF Len(scanned) = 0 \/ Len(filesToIndex) = 0
            THEN /\ pcMain' = "returned"
                 /\ calls' = << >>
            ELSE /\ pcMain' = "indexing"
                 /\ calls' = <<NewCall("index", 0, filesToIndex)>>
         /\ tasks' = << >>
         /\ timers' = << >>
         /\ embedCalls' = 0
         /\ runStart' = edits
  /\ UNCHANGED <<fsVars, dbVars, diskVars, watching, fsEvents, debounceTimers, runs,
                 srchVars, embVars, hybVars, chunkVars, cacheVars>>

\* What the index directory holds: compared between runs.
Persisted ==
  [code_blocks |-> code_blocks, code_fts |-> code_fts, vector_map |-> vector_map,
   files |-> files, hnswFile |-> hnswFile, cacheFile |-> cacheFile,
   stateFile |-> stateFile]

\* CacheManager.save: writes file-hashes.json only when dirty.
SavedCache == IF dirty THEN cache ELSE cacheFile

\* indexWorkspace after processFiles has returned: stopIndexing and
\* VectorStore.save (writeIndex).
FinishIndex ==
  /\ pcMain = "indexing"
  /\ Len(calls) >= 1 /\ calls[1].returned
  /\ state' = StopIndexing(state)
  /\ hnswFile' = hnsw
  /\ pcMain' = "returned"
  /\ UNCHANGED <<fsVars, dbVars, cacheFile, stateFile, opts, dbOpen, initialized, hnsw,
                 nextLabel, cache, dirty, workVars, watchVars, obsVars, srchVars, embVars, hybVars, chunkVars, cacheVars>>

\* indexCommand after indexWorkspace has returned, without --watch:
\* stateManager.save, cacheManager.save, and the process ends.
FinishCommand ==
  /\ pcMain = "returned"
  /\ ~opts.watch
  /\ stateFile' = state
  /\ cacheFile' = SavedCache
  /\ dirty' = FALSE
  /\ pcMain' = "down"
  /\ dbOpen' = FALSE
  /\ initialized' = FALSE
  /\ embCache' = {}
  /\ runs' = Append(runs,
        [force |-> opts.force, watch |-> FALSE, editsStart |-> runStart,
         editsEnd |-> edits, embedCalls |-> embedCalls,
         persisted |-> [Persisted EXCEPT !.stateFile = state, !.cacheFile = SavedCache]])
  /\ UNCHANGED <<fsVars, dbVars, hnswFile, opts, hnsw, nextLabel, cache, state, workVars,
                 watchVars, embedCalls, runStart, srchVars, embedOut, hybVars, chunkVars, cacheVars>>

\* indexCommand after indexWorkspace has returned, with --watch:
\* IndexManager.watch starts the FileWatcher, then the state and the cache
\* are saved and the process stays up.
StartWatch ==
  /\ pcMain = "returned"
  /\ opts.watch
  /\ watching' = TRUE
  /\ stateFile' = state
  /\ cacheFile' = SavedCache
  /\ dirty' = FALSE
  /\ pcMain' = "watching"
  /\ UNCHANGED <<fsVars, dbVars, hnswFile, opts, dbOpen, initialized, hnsw, nextLabel,
                 cache, state, workVars, fsEvents, timers, debounceTimers, obsVars,
                 srchVars, embVars, hybVars, chunkVars, cacheVars>>

\* ---------------------------------------------------------- BatchProcessor
\* The limiter of a processFiles call starts the next file of the current
\* batch: processFile runs up to its first await (fs.readFile).  `before`
\* records the rows of the file at that moment.
StartTask(c) ==
  /\ c \in DOMAIN calls
  /\ ~calls[c].returned
  /\ Len(calls[c].batches) > 0
  /\ calls[c].next <= Len(calls[c].batches[1])
  /\ Cardinality(ActiveOf(c)) < Concurrency
  /\ LET p == calls[c].batches[1][calls[c].next]
     IN  tasks' = Append(tasks,
           [call |-> c, filePath |-> p, pc |-> "readFile", content |-> NoFile,
            mtime |-> 0, blocks |-> << >>, before |-> RowsOf(p.name)])
  /\ calls' = [calls EXCEPT ![c].next = @ + 1]
  /\ UNCHANGED <<fsVars, dbVars, diskVars, procVars, memVars, watchVars, obsVars,
                 srchVars, embVars, hybVars, chunkVars, cacheVars>>

\* `await fs.readFile(filePath, 'utf-8')` completes; a missing file throws
\* into the catch of processFile.
ReadFile(i) ==
  /\ i \in DOMAIN tasks
  /\ tasks[i].pc = "readFile"
  /\ LET name == tasks[i].filePath.name
     IN  tasks' = IF fsContent[name] = NoFile
                  THEN [tasks EXCEPT ![i].pc = "failed"]
                  ELSE [tasks EXCEPT ![i].pc = "stat", ![i].content = fsContent[name]]
  /\ UNCHANGED <<fsVars, dbVars, diskVars, procVars, memVars, calls, watchVars, obsVars,
                 srchVars, embVars, hybVars, chunkVars, cacheVars>>

\* The second-chance test with its comparison inverted: an entry whose hash
\* differs counts as unchanged, an entry whose hash is equal does not.
ConfirmUnchangedInverted(cached, fileHash) ==
  /\ cached # NoEntry
  /\ cached.hash # fileHash

\* The second-chance test of processFile: `cached && cached.hash === fileHash`.
ConfirmUnchanged(cached, fileHash) ==
  /\ cached # NoEntry
  /\ cached.hash = fileHash

\* `await fs.stat(filePath)` completes and processFile runs on to its next
\* await: the cache test, then the delete transaction and the call of
\* parser.parseFile.
StatAndDelete(i) ==
  /\ i \in DOMAIN tasks
  /\ tasks[i].pc = "stat"
  /\ LET p        == tasks[i].filePath
         rel      == Relative(p)
         fileHash == Sha256(tasks[i].content)
         cached   == cache[rel.name]
         vs       == DeleteBlocksByFile(VsNow, rel)
     IN  IF fsContent[p.name] = NoFile
         THEN /\ tasks' = [tasks EXCEPT ![i].pc = "failed"]
              /\ UNCHANGED <<dbVars, memVars>>
         ELSE IF ConfirmUnchanged(cached, fileHash)
         THEN \* processedFiles++; return
              /\ tasks' = [tasks EXCEPT ![i].pc = "skipped", ![i].mtime = fsMtime[p.name]]
              /\ UNCHANGED <<dbVars, memVars>>
         ELSE IF ~dbOpen
         THEN /\ tasks' = [tasks EXCEPT ![i].pc = "failed", ![i].mtime = fsMtime[p.name]]
              /\ UNCHANGED <<dbVars, memVars>>
         ELSE /\ tasks' = [tasks EXCEPT ![i].pc = "parseFile", ![i].mtime = fsMtime[p.name]]
              /\ code_blocks' = vs.code_blocks
              /\ code_fts' = vs.code_fts
              /\ vector_map' = vs.vector_map
              /\ hnsw' = vs.hnsw
              /\ UNCHANGED <<files, nextLabel, cache, dirty, state>>
  /\ UNCHANGED <<fsVars, diskVars, procVars, calls, watchVars, obsVars, srchVars, embVars, hybVars, chunkVars, cacheVars>>

\* parser.parseFile completes (it reads the file again and chunks it) and
\* processFile calls embedder.embedBatch, which throws at once when the
\* embedder has been disposed.
ParseFile(i) ==
  /\ i \in DOMAIN tasks
  /\ tasks[i].pc = "parseFile"
  /\ LET p == tasks[i].filePath
     IN  IF fsContent[p.name] = NoFile \/ ~initialized
         THEN /\ tasks' = [tasks EXCEPT ![i].pc = "failed"]
              /\ UNCHANGED embedCalls
         ELSE /\ tasks' = [tasks EXCEPT ![i].pc = "embedBatch",
                                        ![i].blocks = ChunkFile(p, fsContent[p.name])]
              /\ embedCalls' = embedCalls + 1
  /\ UNCHANGED <<fsVars, dbVars, diskVars, procVars, memVars, calls, watchVars, runs,
                 runStart, srchVars, embVars, hybVars, chunkVars, cacheVars>>

\* CacheManager.setHash
SetHash(c, name, hash, size, lastModified) ==
  [c EXCEPT ![name] = [hash |-> hash, size |-> size, lastModified |-> lastModified]]

\* embedBatch completes and processFile runs to its end: the insert
\* transaction commits, then setHash, incrementFiles.
InsertCommit(i) ==
  /\ i \in DOMAIN tasks
  /\ tasks[i].pc = "embedBatch"
  /\ dbOpen
  /\ LET t   == tasks[i]
         rel == Relative(t.filePath)
         acc == InsertBlocks([vs |-> VsNow, totalBlocks |-> state.totalBlocks],
                             t.blocks, 1, Len(t.blocks))
         vs  == AddFileMetadata(acc.vs,
                  [filePath |-> rel, fileHash |-> Sha256(t.content),
                   blockCount |-> Len(t.blocks)])
     IN  /\ code_blocks' = vs.code_blocks
         /\ code_fts' = vs.code_fts
         /\ vector_map' = vs.vector_map
         /\ files' = vs.files
         /\ nextLabel' = vs.nextLabel
         /\ hnsw' = vs.hnsw
         /\ cache' = SetHash(cache, rel.name, Sha256(t.content), Len(t.content), t.mtime)
         /\ dirty' = TRUE
         /\ state' = [state EXCEPT !.totalBlocks = acc.totalBlocks, !.totalFiles = @ + 1]
         /\ tasks' = [tasks EXCEPT ![i].pc = "done"]
  /\ UNCHANGED <<fsVars, diskVars, procVars, calls, watchVars, obsVars, srchVars, embVars, hybVars, chunkVars, cacheVars>>

\* embedBatch completes and the insert transaction throws: the handle is
\* closed, or addPoint throws on the k-th block.  SQLite rolls the tables
\* back; the label counter, the HNSW points and the block total of the
\* blocks before the k-th are not part of the transaction.
InsertThrows(i, k) ==
  /\ i \in DOMAIN tasks
  /\ tasks[i].pc = "embedBatch"
  /\ k \in 1..Len(tasks[i].blocks)
  /\ IF ~dbOpen
     THEN /\ k = 1
          /\ UNCHANGED <<nextLabel, hnsw, state>>
     ELSE LET t   == tasks[i]
              acc == InsertBlocks([vs |-> VsNow, totalBlocks |-> state.totalBlocks],
                                  t.blocks, 1, k - 1)
              vs  == AddVectorThrows(AddCodeBlock(acc.vs, t.blocks[k]), t.blocks[k].id)
          IN  /\ nextLabel' = vs.nextLabel
              /\ hnsw' = vs.hnsw
              /\ state' = [state EXCEPT !.totalBlocks = acc.totalBlocks]
  /\ tasks' = [tasks EXCEPT ![i].pc = "failed"]
  /\ UNCHANGED <<fsVars, dbVars, diskVars, procVars, cache, dirty, calls, watchVars,
                 obsVars, srchVars, embVars, hybVars, chunkVars, cacheVars>>

\* `await Promise.all(batch...)` completes: every file of the current batch
\* has finished.  processFiles goes on to the next batch or returns; the
\* timer callback of a watcher-made call then runs
\* `this.debounceTimers.delete(key)`.
\* processFiles with a processFile that lets its error escape: Promise.all
\* rejects on the first failed file and the call ends with its batch.
LastBatchOrRejected(c) ==
  \/ Len(calls[c].batches) = 1
  \/ \E i \in DOMAIN tasks : tasks[i].call = c /\ tasks[i].pc = "failed"

\* The batch loop of processFiles ends with the last batch: processFile
\* catches every error, so Promise.all never rejects.
LastBatch(c) == Len(calls[c].batches) = 1

BatchDone(c) ==
  /\ c \in DOMAIN calls
  /\ ~calls[c].returned
  /\ Len(calls[c].batches) > 0
  /\ calls[c].next > Len(calls[c].batches[1])
  /\ ActiveOf(c) = {}
  /\ LET last == LastBatch(c)
         t    == calls[c].timer
     IN  /\ calls' = [calls EXCEPT ![c].batches = Tail(@), ![c].next = 1,
                                   ![c].returned = last]
         /\ IF last /\ calls[c].origin = "watch"
            THEN /\ timers' = [timers EXCEPT ![t].st = "done"]
                 /\ debounceTimers' = [debounceTimers EXCEPT ![timers[t].key] = 0]
            ELSE UNCHANGED <<timers, debounceTimers>>
  /\ UNCHANGED <<fsVars, dbVars, diskVars, procVars, memVars, tasks, watching, fsEvents,
                 obsVars, srchVars, embVars, hybVars, chunkVars, cacheVars>>

\* -------------------------------------------------------------- FileWatcher
\* clearTimeout: cancels a timer that has not fired yet.
ClearTimeout(ts, t) ==
  IF t # 0 /\ ts[t].st = "pending" THEN [ts EXCEPT ![t].st = "cleared"] ELSE ts

\* chokidar delivers an event: handleFileChange ('add', 'change') or
\* handleFileDelete ('unlink') call debounce(relativePath, fn) with a
\* callback that runs processFiles([filePath]) on the absolute path.
DeliverEvent(e) ==
  /\ watching
  /\ e \in fsEvents
  /\ fsEvents' = fsEvents \ {e}
  /\ LET key      == Relative(Path("abs", e.name)).name
         existing == debounceTimers[key]
     IN  /\ timers' = Append(ClearTimeout(timers, existing),
                        [key |-> key, kind |-> e.kind, path |-> Path("abs", e.name),
                         st |-> "pending"])
         /\ debounceTimers' = [debounceTimers EXCEPT ![key] = Len(timers) + 1]
  /\ UNCHANGED <<fsVars, dbVars, diskVars, procVars, memVars, workVars, watching, obsVars,
                 srchVars, embVars, hybVars, chunkVars, cacheVars>>

\* A debounce timer fires: its callback calls processFiles([filePath]).
TimerFire(t) ==
  /\ t \in DOMAIN timers
  /\ timers[t].st = "pending"
  /\ timers' = [timers EXCEPT ![t].st = "running"]
  /\ calls' = Append(calls, NewCall("watch", t, <<timers[t].path>>))
  /\ UNCHANGED <<fsVars, dbVars, diskVars, procVars, memVars, tasks, watching, fsEvents,
                 debounceTimers, obsVars, srchVars, embVars, hybVars, chunkVars, cacheVars>>

\* FileWatcher.stop: closes chokidar and clears the timers held in
\* debounceTimers.
StopTimers ==
  LET RECURSIVE ClearAll(_, _)
      ClearAll(ts, keys) ==
        IF keys = {} THEN ts
        ELSE LET k == CHOOSE x \in keys : TRUE
             IN  ClearAll(ClearTimeout(ts, debounceTimers[k]), keys \ {k})
  IN  ClearAll(timers, Files)

\* SIGINT: IndexManager.dispose.  fileWatcher.stop, embedder.dispose,
\* vectorStore.close, stateManager.save, cacheManager.save.
Dispose ==
  /\ pcMain = "watching"
  /\ watching' = FALSE
  /\ fsEvents' = {}
  /\ timers' = StopTimers
  /\ debounceTimers' = [f \in Files |-> 0]
  /\ initialized' = FALSE
  /\ embCache' = {}
  /\ dbOpen' = FALSE
  /\ stateFile' = state
  /\ cacheFile' = SavedCache
  /\ dirty' = FALSE
  /\ pcMain' = "disposed"
  /\ UNCHANGED <<fsVars, dbVars, hnswFile, opts, hnsw, nextLabel, cache, state, workVars,
                 obsVars, srchVars, embedOut, hybVars, chunkVars, cacheVars>>

\* The disposed process ends once nothing is left on its event loop.
Exit ==
  /\ pcMain = "disposed"
  /\ ActiveTasks = {}
  /\ \A c \in DOMAIN calls : calls[c].returned
  /\ \A t \in DOMAIN timers : timers[t].st \in {"done", "cleared"}
  /\ pcMain' = "down"
  /\ runs' = Append(runs,
        [force |-> opts.force, watch |-> TRUE, editsStart |-> runStart,
         editsEnd |-> edits, embedCalls |-> embedCalls, persisted |-> Persisted])
  /\ UNCHANGED <<fsVars, dbVars, diskVars, opts, dbOpen, initialized, memVars, workVars,
                 watchVars, embedCalls, runStart, srchVars, embVars, hybVars, chunkVars, cacheVars>>

\* ------------------------------------------------------------------ search
\* SemanticSearch.labelToId: label.toString(36).  Labels are below 36 here,
\* so the result is one base-36 digit; it is never the 16 hex characters of
\* a block id.
Base36Digits == <<"0", "1", "2", "3", "4", "5", "6", "7", "8", "9", "a", "b", "c", "d",
                  "e", "f", "g", "h", "i", "j", "k", "l", "m", "n", "o", "p", "q", "r",
                  "s", "t", "u", "v", "w", "x", "y", "z">>
LabelToId(label) == [base36 |-> Base36Digits[label + 1]]

\* One round of the loop of HybridSearch.semanticSearch with its checks
\* left out: the block of the mapped id is used whether or not it exists.
HybridResolveUnchecked(label) ==
  LET block == GetCodeBlock(code_blocks, LabelToBlockId(vector_map, label))
  IN  IF block = NoEntry THEN [kind |-> "throw"] ELSE [kind |-> "hit", block |-> block]

\* One round of the loop of HybridSearch.semanticSearch over the labels
\* searchKNN returned: `if (!blockId) continue`, then `if (block)`.
HybridResolve(label) ==
  LET blockId == LabelToBlockId(vector_map, label)
  IN  IF blockId = NoEntry THEN [kind |-> "skip"]
      ELSE LET block == GetCodeBlock(code_blocks, blockId)
           IN  IF block # NoEntry THEN [kind |-> "hit", block |-> block]
               ELSE [kind |-> "skip"]

\* One round of the loop of SemanticSearch.search:
\* getCodeBlock(labelToId(label)), then `if (block)`.
SemanticResolve(label) ==
  LET block == GetCodeBlock(code_blocks, LabelToId(label))
  IN  IF block # NoEntry THEN [kind |-> "hit", block |-> block] ELSE [kind |-> "skip"]

\* A search command (its own process): VectorStore.initialize loads
\* vectors.hnsw, searchKNN returns some of its live labels, and the loop
\* resolves them against the tables.
Search(class, labels) ==
  /\ searches < MaxSearches
  /\ labels \subseteq (IF hnswFile = NoEntry THEN {} ELSE hnswFile.live)
  /\ searches' = searches + 1
  /\ LET outcomes == { IF class = "hybrid" THEN HybridResolve(l) ELSE SemanticResolve(l) :
                         l \in labels }
     IN  lastSearch' =
           [class |-> class, labels |-> labels,
            results |-> { o.block : o \in { x \in outcomes : x.kind = "hit" } },
            raised |-> \E o \in outcomes : o.kind = "throw"]
  /\ UNCHANGED <<fsVars, dbVars, diskVars, procVars, memVars, workVars, watchVars, obsVars,
                 embVars, hybVars, chunkVars, cacheVars>>

\* ----------------------------------------------------------- specification
\* The workspace is edited.
EditStep ==
  \/ \E f \in Edited, c \in Contents : WriteFile(f, c)
  \/ \E f \in Edited : TouchFile(f)
  \/ \E f \in Edited : UnlinkFile(f)

\* The processFiles calls and their per-file tasks make progress.
TaskStep ==
  \/ \E c \in DOMAIN calls : StartTask(c)
  \/ \E i \in DOMAIN tasks : ReadFile(i)
  \/ \E i \in DOMAIN tasks : StatAndDelete(i)
  \/ \E i \in DOMAIN tasks : ParseFile(i)
  \/ \E i \in DOMAIN tasks : InsertCommit(i)
  \/ \E i \in DOMAIN tasks, k \in 1..2 : InsertThrows(i, k)
  \/ \E c \in DOMAIN calls : BatchDone(c)

\* `index` and `index --force`, run to completion any number of times.
CommandStep ==
  \/ \E force \in BOOLEAN : Launch(force, FALSE)
  \/ FinishIndex
  \/ FinishCommand

\* `index --watch` until SIGINT.
WatchStep ==
  \/ \E force \in BOOLEAN : Launch(force, TRUE)
  \/ FinishIndex
  \/ StartWatch
  \/ \E e \in fsEvents : DeliverEvent(e)
  \/ \E t \in DOMAIN timers : TimerFire(t)
  \/ Dispose
  \/ Exit

\* The `search` command.
SearchStep ==
  \E class \in {"hybrid", "semantic"}, labels \in SUBSET (0..3) : Search(class, labels)

\* The indexer run from the command line on a workspace under edit.
Next == EditStep \/ CommandStep \/ TaskStep
Spec == Init /\ [][Next]_vars

\* The indexer in watch mode.
NextWatch == EditStep \/ WatchStep \/ TaskStep
SpecWatch == Init /\ [][NextWatch]_vars

\* The indexer run from the command line, and searches.
NextSearch == EditStep \/ CommandStep \/ TaskStep \/ SearchStep
SpecSearch == Init /\ [][NextSearch]_vars

\* The watcher under a burst of saves that leave the bytes unchanged.
BurstStep == watching /\ \E f \in Edited : Touch(f, MaxBurst)

DebounceStep ==
  \/ \E force \in BOOLEAN : Launch(force, TRUE)
  \/ FinishIndex
  \/ StartWatch
  \/ \E e \in fsEvents : DeliverEvent(e)
  \/ \E t \in DOMAIN timers : TimerFire(t)

NextDebounce == BurstStep \/ DebounceStep \/ TaskStep
SpecDebounce == Init /\ [][NextDebounce]_vars

\* `index` on a workspace of two files, either of which may disappear
\* while the run is under way.
RemoveStep == \E f \in Files : UnlinkFile(f)

NextBatch == RemoveStep \/ CommandStep \/ TaskStep
SpecBatch == InitBatch /\ [][NextBatch]_vars

\* ---------------------------------------------------------- OllamaEmbedder
\* The embedder as its second (complete) class definition in
\* OllamaEmbedder.ts writes it.  A text is the sequence of its UTF-16 code
\* units: "Aa", "BB", "C".
TextPool == { <<65, 97>>, <<66, 66>>, <<67>> }

\* The vector Ollama returns for a prompt, and the fallback
\* new Float32Array(this.dimensions).fill(0).
Dimensions == 768
Embedding(prompt) == [zeros |-> FALSE, dim |-> Dimensions, of |-> prompt]
ZeroVector == [zeros |-> TRUE, dim |-> Dimensions, of |-> << >>]

\* truncateText(text, maxTokens): at most maxTokens * 4 characters, cut back
\* to the last newline when that lies beyond 80% of the limit.
MaxTokens == 2000
TruncateText(text, maxTokens) ==
  LET maxChars    == maxTokens * 4
      truncated   == SubSeq(text, 1, maxChars)
      newlines    == { i \in 1..Len(truncated) : truncated[i] = 10 }
      lastNewline == IF newlines = {} THEN -1 ELSE Max(newlines) - 1
  IN  IF Len(text) <= maxChars THEN text
      ELSE IF 5 * lastNewline > 4 * maxChars THEN SubSeq(truncated, 1, lastNewline)
      ELSE truncated

\* One round of hashText on a 32-bit integer held as two 16-bit halves:
\* hash = ((hash << 5) - hash) + char; hash = hash & hash, that is
\* 31 * hash + char wrapped to 32 bits.
HashRound(h, char) ==
  LET lo == h.lo * 31 + char
  IN  [hi |-> (h.hi * 31 + lo \div 65536) % 65536, lo |-> lo % 65536]

RECURSIVE HashFrom(_, _, _)
HashFrom(h, text, i) ==
  IF i > Len(text) THEN h ELSE HashFrom(HashRound(h, text[i]), text, i + 1)

\* The signed value of the 32 bits.
ToInt32(h) ==
  IF h.hi >= 32768 THEN (h.hi - 65536) * 65536 + h.lo ELSE h.hi * 65536 + h.lo

\* Number.prototype.toString(36)
RECURSIVE Digits36(_)
Digits36(n) ==
  IF n < 36 THEN <<Base36Digits[n + 1]>>
  ELSE Append(Digits36(n \div 36), Base36Digits[(n % 36) + 1])

ToString36(n) == IF n < 0 THEN <<"-">> \o Digits36(-n) ELSE Digits36(n)

\* OllamaEmbedder.hashText
HashText(text) == ToString36(ToInt32(HashFrom([hi |-> 0, lo |-> 0], text, 1)))

\* this.cache.has(hash) / get(hash) / set(hash, embedding)
CacheHas(c, hash) == \E e \in c : e.hash = hash
CacheGet(c, hash) == (CHOOSE e \in c : e.hash = hash).vector
CacheSet(c, hash, vector) ==
  { e \in c : e.hash # hash } \cup {[hash |-> hash, vector |-> vector]}

\* OllamaEmbedder.embed on cache `c`, while Ollama fails the requests for the
\* prompts in `bad`: a cached vector, a thrown error, or a fetched embedding
\* to be put in the cache.
Embed(c, text, bad) ==
  LET prompt == TruncateText(text, MaxTokens)
      hash   == HashText(prompt)
  IN  IF CacheHas(c, hash) THEN [kind |-> "cached", hash |-> hash, vector |-> CacheGet(c, hash)]
      ELSE IF prompt \in bad THEN [kind |-> "throw", hash |-> hash, vector |-> ZeroVector]
      ELSE [kind |-> "fetched", hash |-> hash, vector |-> Embedding(prompt)]

\* The cache.set calls of one round, in the order the requests complete.
RECURSIVE CacheSetAll(_, _, _)
CacheSetAll(c, outcomes, order) ==
  IF order = << >> THEN c
  ELSE LET o == outcomes[Head(order)]
       IN  CacheSetAll(IF o.kind = "fetched" THEN CacheSet(c, o.hash, o.vector) ELSE c,
                       outcomes, Tail(order))

Reverse(s) == [i \in 1..Len(s) |-> s[Len(s) + 1 - i]]

\* One round without the try/catch around embed: the first class
\* definition's Promise.all(batch.map(text => this.embed(text))).
RoundRaisesOnFailure(outcomes) == \E k \in DOMAIN outcomes : outcomes[k].kind = "throw"

\* One round of embedBatch raises nothing: the catch around each embed
\* returns the zero vector.
RoundRaises(outcomes) == FALSE

\* The rounds of embedBatch from 1-based position i.  Every embed of a round
\* looks the cache up before any request of the round completes; `rev`
\* tells whether the requests complete in list order or in reverse.
RECURSIVE EmbedRounds(_, _, _, _, _)
EmbedRounds(acc, texts, i, bad, rev) ==
  IF i > Len(texts) \/ acc.raised THEN acc
  ELSE LET last     == IF i + EmbedBatchSize - 1 < Len(texts)
                       THEN i + EmbedBatchSize - 1 ELSE Len(texts)
           batch    == SubSeq(texts, i, last)
           outcomes == [k \in 1..Len(batch) |-> Embed(acc.cache, batch[k], bad)]
           order    == [k \in 1..Len(batch) |-> k]
       IN  EmbedRounds(
             [cache   |-> CacheSetAll(acc.cache, outcomes,
                                      IF rev THEN Reverse(order) ELSE order),
              result  |-> IF RoundRaises(outcomes) THEN acc.result
                          ELSE acc.result \o [k \in 1..Len(batch) |-> outcomes[k].vector],
              failed  |-> acc.failed \cup
                            { i + k - 1 : k \in { x \in 1..Len(batch) :
                                                    outcomes[x].kind = "throw" } },
              raised  |-> RoundRaises(outcomes)],
             texts, last + 1, bad, rev)

\* OllamaEmbedder.embedBatch on an initialized embedder.
EmbedBatch(c, texts, bad, rev) ==
  EmbedRounds([cache |-> c, result |-> << >>, failed |-> {}, raised |-> FALSE],
              texts, 1, bad, rev)

TextLists == UNION { [1..n -> TextPool] : n \in 0..MaxTexts }

\* OllamaEmbedder.initialize with Ollama reachable.
EmbInitialize ==
  /\ ~initialized
  /\ initialized' = TRUE
  /\ UNCHANGED <<fsVars, dbVars, diskVars, pcMain, opts, dbOpen, memVars, workVars,
                 watchVars, obsVars, srchVars, embVars, hybVars, chunkVars, cacheVars>>

\* A call of embedBatch; before initialize it throws at once.
EmbedBatchCall(texts, bad, rev) ==
  /\ embedCalls < MaxEmbedCalls
  /\ embedCalls' = embedCalls + 1
  /\ IF ~initialized
     THEN /\ embedOut' = [texts |-> texts, failed |-> {}, result |-> << >>, raised |-> TRUE]
          /\ UNCHANGED embCache
     ELSE LET r == EmbedBatch(embCache, texts, bad, rev)
          IN  /\ embCache' = r.cache
              /\ embedOut' = [texts |-> texts, failed |-> r.failed, result |-> r.result,
                              raised |-> r.raised]
  /\ UNCHANGED <<fsVars, dbVars, diskVars, procVars, memVars, workVars, watchVars, runs,
                 runStart, srchVars, hybVars, chunkVars, cacheVars>>

\* OllamaEmbedder.dispose
EmbDispose ==
  /\ initialized
  /\ initialized' = FALSE
  /\ embCache' = {}
  /\ UNCHANGED <<fsVars, dbVars, diskVars, pcMain, opts, dbOpen, memVars, workVars,
                 watchVars, obsVars, srchVars, embedOut, hybVars, chunkVars, cacheVars>>

NextEmbed ==
  \/ EmbInitialize
  \/ \E texts \in TextLists : \E bad \in SUBSET Range(texts), rev \in BOOLEAN :
       EmbedBatchCall(texts, bad, rev)
  \/ EmbDispose
SpecEmbed == Init /\ [][NextEmbed]_vars

\* -------------------------------------------------- ChunkingStrategy alone
\* The chunker on files whose nodes may exceed maxTokens.  A line is the
\* number of its whitespace-separated words; a file is its sequence of
\* lines; the parse tree is the sequence of its top-level semantic nodes,
\* each [startRow, endRow, type, name] with 0-based rows.
WordCounts == {0, 1, 3, 6}

\* estimateTokens: Math.ceil(words.length * 0.75)
EstimateTokens(words) == (3 * words + 3) \div 4

\* The words of lines.slice(from, to).join('\n'), 0-based and `to` exclusive.
RECURSIVE WordsIn(_, _, _)
WordsIn(lines, from, to) ==
  IF from >= to \/ from >= Len(lines) THEN 0
  ELSE lines[from + 1] + WordsIn(lines, from + 1, to)

Min2(a, b) == IF a < b THEN a ELSE b
Max2(a, b) == IF a > b THEN a ELSE b

\* The inner loop of chunkLargeNode: the first row after the lines that
\* fill targetTokens, from row chunkEnd with chunkSize tokens so far.
RECURSIVE ChunkEndFrom(_, _, _, _)
ChunkEndFrom(lines, chunkEnd, chunkSize, endLine) ==
  IF chunkEnd <= endLine /\ chunkSize < ChunkTargetTokens
  THEN ChunkEndFrom(lines, chunkEnd + 1,
                    chunkSize + EstimateTokens(IF chunkEnd < Len(lines)
                                               THEN lines[chunkEnd + 1] ELSE 0),
                    endLine)
  ELSE chunkEnd

\* The outer loop of chunkLargeNode: the array `blocks` it builds.
RECURSIVE LargeNodeBlocks(_, _, _, _, _, _)
LargeNodeBlocks(blocks, node, filePath, lines, currentLine, lastChunkEnd) ==
  IF currentLine > node.endRow THEN blocks
  ELSE LET chunkEnd == ChunkEndFrom(lines, currentLine, 0, node.endRow)
           from     == Max2(currentLine - ChunkOverlapTokens, lastChunkEnd)
           to       == Min2(chunkEnd + ChunkOverlapTokens, node.endRow + 1)
           block    ==
             [ id           |-> GenerateId(filePath, currentLine, chunkEnd, node.type,
                                            Len(blocks)),
               filePath     |-> filePath,
               startLine    |-> from + 1,
               endLine      |-> to + 1,
               content      |-> SubSeq(lines, from + 1, to),
               contentHash  |-> Sha256(SubSeq(lines, from + 1, to)),
               blockType    |-> node.type,
               symbolName   |-> node.name,
               parentSymbol |-> "",
               tokens       |-> EstimateTokens(WordsIn(lines, from, to)) ]
       IN  LargeNodeBlocks(Append(blocks, block), node, filePath, lines, chunkEnd, chunkEnd)

\* chunkLargeNode: `return blocks[0]`.
ChunkLargeNode(node, filePath, lines) ==
  <<Head(LargeNodeBlocks(<< >>, node, filePath, lines, node.startRow, node.startRow))>>

\* estimateTokens(extractNodeContent(content, node)) > maxTokens
Oversize(node, lines) ==
  EstimateTokens(WordsIn(lines, node.startRow, node.endRow + 1)) > ChunkMaxTokens

\* createSemanticBlock for any top-level node (parentSymbol undefined): the
\* blocks it contributes to the output of chunkFile.
CreateNodeBlocks(node, filePath, lines) ==
  IF Oversize(node, lines) THEN ChunkLargeNode(node, filePath, lines)
  ELSE << [ id           |-> GenerateId(filePath, node.startRow, node.endRow, node.type, 0),
            filePath     |-> filePath,
            startLine    |-> node.startRow + 1,
            endLine      |-> node.endRow + 1,
            content      |-> SubSeq(lines, node.startRow + 1, node.endRow + 1),
            contentHash  |-> Sha256(SubSeq(lines, node.startRow + 1, node.endRow + 1)),
            blockType    |-> node.type,
            symbolName   |-> node.name,
            parentSymbol |-> "",
            tokens       |-> EstimateTokens(WordsIn(lines, node.startRow, node.endRow + 1)) ] >>

\* createFileBlock with its token estimate.
CreateWholeFileBlock(filePath, lines) ==
  [ id           |-> GenerateId(filePath, 0, Len(lines), "file", 0),
    filePath     |-> filePath,
    startLine    |-> 1,
    endLine      |-> Len(lines),
    content      |-> lines,
    contentHash  |-> Sha256(lines),
    blockType    |-> "file",
    symbolName   |-> "",
    parentSymbol |-> "",
    tokens       |-> EstimateTokens(WordsIn(lines, 0, Len(lines))) ]

\* chunkFile on a parse tree given as its top-level semantic nodes.
RECURSIVE NodeBlocksFrom(_, _, _, _)
NodeBlocksFrom(nodes, filePath, lines, k) ==
  IF k > Len(nodes) THEN << >>
  ELSE CreateNodeBlocks(nodes[k], filePath, lines)
         \o NodeBlocksFrom(nodes, filePath, lines, k + 1)

\* A chunkFile without the fallback to a file block.
ChunkTreeNoFallback(filePath, lines, nodes) == NodeBlocksFrom(nodes, filePath, lines, 1)

ChunkTree(filePath, lines, nodes) ==
  LET blocks == NodeBlocksFrom(nodes, filePath, lines, 1)
  IN  IF Len(blocks) = 0 THEN <<CreateWholeFileBlock(filePath, lines)>> ELSE blocks

\* The files handed to the chunker and their parse trees: no semantic node,
\* one function over some rows of the file, or two functions, the second
\* one after the first (it may start on the row the first ends on) or
\* nested in it (processNode reaches a function in the body of a function
\* through the non-semantic statement block, after its parent).
LineLists == UNION { [1..n -> WordCounts] : n \in 1..MaxLines }
RowSpans(lines) ==
  { q \in (0..(Len(lines) - 1)) \X (0..(Len(lines) - 1)) : q[1] <= q[2] }
FunctionNode(span, name) ==
  [startRow |-> span[1], endRow |-> span[2], type |-> "function_declaration", name |-> name]
TreesOf(lines) ==
  {<< >>}
    \cup { <<FunctionNode(p, "f")>> : p \in RowSpans(lines) }
    \cup { <<FunctionNode(pq[1], "f"), FunctionNode(pq[2], "g")>> :
             pq \in { x \in RowSpans(lines) \X RowSpans(lines) :
                        \/ x[2][1] >= x[1][2]
                        \/ x[1][1] <= x[2][1] /\ x[2][2] <= x[1][2] } }

\* A call of chunkFile.
ChunkFileCall(lines, nodes) ==
  /\ ~chunkOut.made
  /\ chunkOut' = [made |-> TRUE, lines |-> lines, nodes |-> nodes,
                  blocks |-> ChunkTree(Path("rel", "a.ts"), lines, nodes)]
  /\ UNCHANGED <<fsVars, dbVars, diskVars, procVars, memVars, workVars, watchVars, obsVars,
                 srchVars, embVars, hybVars, cacheVars>>

\* A process that has indexed nothing yet.
InitEmpty == Boot([f \in Files |-> NoFile], EmptyHnsw)

NextChunk ==
  /\ ~chunkOut.made
  /\ \E lines \in LineLists : \E nodes \in TreesOf(lines) : ChunkFileCall(lines, nodes)
SpecChunk == InitEmpty /\ [][NextChunk]_vars

\* ----------------------------------------------------------- HybridSearch
\* Strings are sequences of UTF-16 code units.  Scores, weights and boost
\* factors are fixed-point numbers with One standing for 1.0; a product or
\* quotient is rounded down to the next unit.
One == 1000

\* String.prototype.toLowerCase on ASCII letters.
ToLowerCase(str) ==
  [i \in 1..Len(str) |-> IF str[i] >= 65 /\ str[i] <= 90 THEN str[i] + 32 ELSE str[i]]

\* String.prototype.includes
Includes(str, part) ==
  \E i \in 1..(Len(str) - Len(part) + 1) : SubSeq(str, i, i + Len(part) - 1) = part

\* The regular expression classes \s and \w on the characters in use.
IsSpace(c) == c \in {9, 10, 13, 32}
IsWord(c) == (c >= 48 /\ c <= 57) \/ (c >= 65 /\ c <= 90) \/ (c >= 97 /\ c <= 122) \/ c = 95

\* str.split(/\s+/).filter(w => w.length > 0): the words of str from
\* position i on, `word` being the word under way.
RECURSIVE WordsFrom(_, _, _)
WordsFrom(str, i, word) ==
  IF i > Len(str) THEN (IF word = << >> THEN << >> ELSE <<word>>)
  ELSE IF IsSpace(str[i])
       THEN (IF word = << >> THEN << >> ELSE <<word>>) \o WordsFrom(str, i + 1, << >>)
       ELSE WordsFrom(str, i + 1, Append(word, str[i]))

Words(str) == WordsFrom(str, 1, << >>)

\* The tokens of VectorStore.fullTextSearch: every character outside \w and
\* \s becomes a space, then the words; they are joined with ' OR '.
Sanitize(query) ==
  Words([i \in 1..Len(query) |->
           IF IsWord(query[i]) \/ IsSpace(query[i]) THEN query[i] ELSE 32])

\* The barewords the FTS5 query syntax reads as operators: AND, OR, NOT.
Fts5Operators == { <<65, 78, 68>>, <<79, 82>>, <<78, 79, 84>> }

\* code_fts MATCH ? on the tokens joined with ' OR ': FTS5 rejects the
\* expression ("fts5: syntax error") when a token is an operator, since two
\* operators then meet or one starts or ends the expression.
MatchSyntaxError(tokens) == \E k \in 1..Len(tokens) : tokens[k] \in Fts5Operators

\* VectorStore.fullTextSearch: `rows` is what the engine returns for a
\* well-formed expression, as [blockId, score] in the engine's order.
FullTextSearch(query, rows) ==
  LET tokens == Sanitize(query)
  IN  IF tokens = << >> THEN [kind |-> "ok", rows |-> << >>]
      ELSE IF MatchSyntaxError(tokens) THEN [kind |-> "throw", rows |-> << >>]
      ELSE [kind |-> "ok", rows |-> rows]

\* HybridSearch.keywordSearch: Math.min(result.score / 10, 1)
NormalizeScore(score) == Min2(score \div 10, One)

\* a * b / One and a * b / c in fixed point.
Mul(a, b) == (a * b) \div One
MulDiv(a, b, c) == (a * b) \div c

\* A SearchResult built from a catalog row and the two channel scores.
MakeResult(block, semanticScore, keywordScore, finalScore) ==
  [ blockId |-> block.id, filePath |-> block.filePath, content |-> block.content,
    language |-> block.language, blockType |-> block.blockType,
    symbolName |-> block.symbolName,
    semanticScore |-> semanticScore, keywordScore |-> keywordScore,
    boostScore |-> One, finalScore |-> finalScore ]

\* HybridSearch.semanticSearch over the [label, distance] list searchKNN
\* returned: unmapped labels and missing blocks are skipped, the score is
\* 1 - distance.
RECURSIVE SemanticSearchFrom(_, _)
SemanticSearchFrom(knn, k) ==
  IF k > Len(knn) THEN << >>
  ELSE LET r == HybridResolve(knn[k].label)
       IN  (IF r.kind = "hit"
            THEN <<MakeResult(r.block, One - knn[k].distance, 0, One - knn[k].distance)>>
            ELSE << >>) \o SemanticSearchFrom(knn, k + 1)

\* HybridSearch.keywordSearch over the rows of fullTextSearch.
RECURSIVE KeywordSearchFrom(_, _)
KeywordSearchFrom(rows, k) ==
  IF k > Len(rows) THEN << >>
  ELSE LET block == GetCodeBlock(code_blocks, rows[k].blockId)
       IN  (IF block # NoEntry
            THEN <<MakeResult(block, 0, NormalizeScore(rows[k].score),
                              NormalizeScore(rows[k].score))>>
            ELSE << >>) \o KeywordSearchFrom(rows, k + 1)

\* merged.get(blockId): the position of the entry, 0 if none.
IndexOfBlock(merged, blockId) ==
  LET hits == { i \in 1..Len(merged) : merged[i].blockId = blockId }
  IN  IF hits = {} THEN 0 ELSE CHOOSE i \in hits : TRUE

Fuse(semanticScore, keywordScore, semanticWeight, keywordWeight) ==
  (semanticScore * semanticWeight + keywordScore * keywordWeight)
     \div (semanticWeight + keywordWeight)

\* The first loop of mergeResults (semantic results).
RECURSIVE MergeSemantic(_, _, _, _, _)
MergeSemantic(merged, results, k, semanticWeight, keywordWeight) ==
  IF k > Len(results) THEN merged
  ELSE LET r == results[k]
           i == IndexOfBlock(merged, r.blockId)
           next ==
             IF i # 0
             THEN LET sem == Max2(merged[i].semanticScore, r.semanticScore)
                  IN  [merged EXCEPT
                         ![i].semanticScore = sem,
                         ![i].finalScore =
                            Fuse(sem, merged[i].keywordScore, semanticWeight, keywordWeight)]
             ELSE Append(merged,
                    [r EXCEPT !.finalScore =
                       MulDiv(r.semanticScore, semanticWeight, semanticWeight + keywordWeight)])
       IN  MergeSemantic(next, results, k + 1, semanticWeight, keywordWeight)

\* The second loop of mergeResults (keyword results).
RECURSIVE MergeKeyword(_, _, _, _, _)
MergeKeyword(merged, results, k, semanticWeight, keywordWeight) ==
  IF k > Len(results) THEN merged
  ELSE LET r == results[k]
           i == IndexOfBlock(merged, r.blockId)
           next ==
             IF i # 0
             THEN LET kw == Max2(merged[i].keywordScore, r.keywordScore)
                  IN  [merged EXCEPT
                         ![i].keywordScore = kw,
                         ![i].finalScore =
                            Fuse(merged[i].semanticScore, kw, semanticWeight, keywordWeight)]
             ELSE Append(merged,
                    [r EXCEPT !.finalScore =
                       MulDiv(r.keywordScore, keywordWeight, semanticWeight + keywordWeight)])
       IN  MergeKeyword(next, results, k + 1, semanticWeight, keywordWeight)

\* HybridSearch.mergeResults
MergeResults(semanticResults, keywordResults, semanticWeight, keywordWeight) ==
  MergeKeyword(MergeSemantic(<< >>, semanticResults, 1, semanticWeight, keywordWeight),
               keywordResults, 1, semanticWeight, keywordWeight)

\* BoostCalculator.calculateSymbolNameBoost
SymbolNameBoost(result, query) ==
  LET queryLower  == ToLowerCase(query)
      symbolLower == ToLowerCase(result.symbolName)
  IN  IF result.symbolName = << >> THEN One
      ELSE IF symbolLower = queryLower THEN 1500
      ELSE IF Includes(symbolLower, queryLower) THEN 1300
      ELSE IF Includes(queryLower, symbolLower) THEN 1200
      ELSE One

\* BoostCalculator.calculateFilePathBoost (the file name is part of the
\* path, so the second test never adds anything).
FilePathBoost(result, query) ==
  IF Includes(ToLowerCase(result.filePath), ToLowerCase(query)) THEN 1300 ELSE One

\* BoostCalculator.calculateBlockTypeBoost
BlockTypeBoost(result) ==
  IF result.blockType \in {"function_declaration", "function_expression", "arrow_function",
                           "method_definition", "function_definition"} THEN 1300
  ELSE IF result.blockType \in {"class_declaration", "class_expression", "class_definition"}
       THEN 1200
  ELSE IF result.blockType \in {"interface_declaration", "type_alias_declaration"} THEN 1150
  ELSE IF result.blockType = "enum_declaration" THEN 1100
  ELSE IF result.blockType = "decorated_definition" THEN 1250
  ELSE IF result.blockType = "file" THEN 950
  ELSE One

\* BoostCalculator.calculateSemanticKeywordBalance
SemanticKeywordBalance(result) ==
  IF result.semanticScore > 700 /\ result.keywordScore > 700 THEN 1200
  ELSE IF result.semanticScore > 800 \/ result.keywordScore > 800 THEN 1100
  ELSE IF result.semanticScore < 300 /\ result.keywordScore < 300 THEN 800
  ELSE One

\* BoostCalculator.calculateBoost; recentFiles and languageDistribution are
\* never set by HybridSearch, so the recency and language boosts are 1.0.
CalculateBoost(result, query) ==
  Mul(Mul(Mul(Mul(Mul(Mul(One, SymbolNameBoost(result, query)),
                      FilePathBoost(result, query)), One),
              BlockTypeBoost(result)), One),
      SemanticKeywordBalance(result))

\* HybridSearch.applyBoosts
ApplyBoosts(results, query) ==
  [k \in 1..Len(results) |->
     [results[k] EXCEPT !.boostScore = CalculateBoost(results[k], query),
                        !.finalScore = Mul(@, CalculateBoost(results[k], query))]]

\* Array.prototype.filter
RECURSIVE SelectFrom(_, _, _)
SelectFrom(seq, Keep(_), k) ==
  IF k > Len(seq) THEN << >>
  ELSE (IF Keep(seq[k]) THEN <<seq[k]>> ELSE << >>) \o SelectFrom(seq, Keep, k + 1)

\* toLowerCase on the language and block type names in use (names are
\* whole strings here; the catalog's own names are lower case already).
LowerName(name) ==
  CASE name = "TypeScript" -> "typescript"
    [] name = "Class_Definition" -> "class_definition"
    [] OTHER -> name

\* A filter that keeps every result.
KeepsAll(value, wanted) == TRUE

\* The tests of applyFilters on language and block type: equal after
\* toLowerCase.
NameMatches(value, wanted) == LowerName(value) = LowerName(wanted)

\* HybridSearch.applyFilters; an option that is not given is "" (language,
\* blockType) or 0 (minScore), all of them falsy in the code's tests.
ApplyFilters(results, options) ==
  LET KeepLanguage(r) == options.language = "" \/ NameMatches(r.language, options.language)
      KeepType(r) == options.blockType = "" \/ NameMatches(r.blockType, options.blockType)
      KeepScore(r) == options.minScore = 0 \/ r.finalScore >= options.minScore
  IN  SelectFrom(SelectFrom(SelectFrom(results, KeepLanguage, 1), KeepType, 1), KeepScore, 1)

\* filtered.sort((a, b) => b.finalScore - a.finalScore): a stable sort by
\* descending key, as an insertion of each element after the elements that
\* do not rank below it.
RECURSIVE SortDescFrom(_, _, _, _)
SortDescFrom(sorted, seq, Key(_), k) ==
  IF k > Len(seq) THEN sorted
  ELSE LET ahead == { i \in 1..Len(sorted) : Key(sorted[i]) >= Key(seq[k]) }
           at    == IF ahead = {} THEN 0 ELSE Max(ahead)
       IN  SortDescFrom(SubSeq(sorted, 1, at) \o <<seq[k]>>
                          \o SubSeq(sorted, at + 1, Len(sorted)),
                        seq, Key, k + 1)

\* Array.prototype.slice(0, limit) for limit >= 0
Slice(seq, limit) == SubSeq(seq, 1, Min2(limit, Len(seq)))

\* content.split('\n').length
LineCount(content) == Cardinality({ i \in 1..Len(content) : content[i] = 10 }) + 1

\* ReRanker.countWordMatches
CountWordMatches(queryLower, contentLower) ==
  LET queryWords == Words(queryLower)
  IN  Cardinality({ k \in 1..Len(queryWords) :
                      Len(queryWords[k]) > 2 /\ Includes(contentLower, queryWords[k]) })

\* ReRanker.calculateRerankScore
CalculateRerankScore(result, query) ==
  LET queryLower   == ToLowerCase(query)
      contentLower == ToLowerCase(result.content)
      symbolLower  == ToLowerCase(result.symbolName)
      s1 == IF symbolLower = queryLower THEN Mul(result.finalScore, 1500)
            ELSE IF Includes(symbolLower, queryLower) THEN Mul(result.finalScore, 1200)
            ELSE result.finalScore
      s2 == IF Includes(contentLower, queryLower) THEN Mul(s1, 1100) ELSE s1
      wordMatches == CountWordMatches(queryLower, contentLower)
      s3 == IF wordMatches > 0 THEN Mul(s2, One + wordMatches * 50) ELSE s2
      s4 == IF result.semanticScore > 800 /\ result.keywordScore > 500
            THEN Mul(s3, 1150) ELSE s3
      s5 == IF result.blockType \in {"function_declaration", "method_definition",
                                     "function_definition"}
            THEN Mul(s4, 1050) ELSE s4
      s6 == IF LineCount(result.content) > 50 THEN Mul(s5, 950) ELSE s5
  IN  Min2(s6, One)

RerankedScore(r) == r.rerankScore
FinalScore(r) == r.finalScore

\* ReRanker.rerank: `if (results.length <= 1) return results`.
RerankReturnsAsIs(results) == Len(results) <= 1

\* ReRanker.rerank
Rerank(results, query) ==
  IF RerankReturnsAsIs(results) THEN results
  ELSE LET scored == [k \in 1..Len(results) |->
                        [result |-> results[k],
                         rerankScore |-> CalculateRerankScore(results[k], query)]]
           reranked == SortDescFrom(<< >>, scored, RerankedScore, 1)
       IN  [k \in 1..Len(reranked) |->
              [reranked[k].result EXCEPT !.finalScore = reranked[k].rerankScore]]

\* limited.reduce((sum, r) => sum + r.finalScore, 0)
RECURSIVE SumScores(_, _)
SumScores(results, k) ==
  IF k > Len(results) THEN 0 ELSE results[k].finalScore + SumScores(results, k + 1)

\* HybridSearch.hashQuery: the same rolling hash as OllamaEmbedder.hashText.
HashQuery(query) == ToString36(ToInt32(HashFrom([hi |-> 0, lo |-> 0], query, 1)))

\* VectorStore.recordSearchStats: INSERT OR REPLACE INTO search_stats
\* (PRIMARY KEY query_hash).  The wall-clock columns are left out.
RecordSearchStats(table, stats) ==
  { r \in table : r.queryHash # stats.queryHash } \cup {stats}

\* HybridSearch.search on the index of the current state.  `knn` is what
\* searchKNN returns and `fts` what the full-text engine returns for a
\* well-formed expression.  The outcome has the returned list, whether the
\* call raised, and the search_stats table afterwards.  The average of no
\* scores is 0 / 0 = NaN, which SQLite binds as NULL: avg_score is NOT
\* NULL, so the insert raises.
HybridSearchOutcome(query, options, knn, fts) ==
  LET semanticResults == IF ~options.keywordOnly THEN SemanticSearchFrom(knn, 1) ELSE << >>
      ftsOutcome == IF ~options.semanticOnly THEN FullTextSearch(query, fts)
                    ELSE [kind |-> "ok", rows |-> << >>]
      keywordResults == KeywordSearchFrom(ftsOutcome.rows, 1)
      merged   == MergeResults(semanticResults, keywordResults,
                               options.semanticWeight, options.keywordWeight)
      boosted  == ApplyBoosts(merged, query)
      filtered == ApplyFilters(boosted, options)
      sorted   == SortDescFrom(<< >>, filtered, FinalScore, 1)
      limited  == Slice(sorted, options.limit)
  IN  IF ftsOutcome.kind = "throw"
      THEN [raised |-> TRUE, results |-> << >>, stats |-> search_stats]
      ELSE IF options.rerank
      THEN [raised |-> FALSE, results |-> Rerank(limited, query), stats |-> search_stats]
      ELSE IF Len(limited) = 0
      THEN [raised |-> TRUE, results |-> << >>, stats |-> search_stats]
      ELSE [raised |-> FALSE, results |-> limited,
            stats |-> RecordSearchStats(search_stats,
                        [queryHash |-> HashQuery(query), query |-> query,
                         resultCount |-> Len(limited),
                         avgScore |-> SumScores(limited, 1) \div Len(limited)])]

\* A search command on its own process runs HybridSearch.search once.
HybridSearchCall(query, options, knn, fts) ==
  /\ \A k \in 1..Len(knn) : knn[k].label \in (IF hnswFile = NoEntry THEN {} ELSE hnswFile.live)
  /\ LET out == HybridSearchOutcome(query, options, knn, fts)
     IN  /\ search_stats' = out.stats
         /\ hybridOut' = [made |-> TRUE, n |-> hybridOut.n + 1, query |-> query,
                          options |-> options, knn |-> knn, fts |-> fts,
                          results |-> out.results, raised |-> out.raised,
                          before |-> search_stats]
  /\ UNCHANGED <<fsVars, dbVars, diskVars, procVars, memVars, workVars, watchVars, obsVars,
                 srchVars, embVars, chunkVars, cacheVars>>

\* The index a search runs on: a TypeScript function `f` in a.ts, a Python
\* class of 51 lines in b.py, and a vector whose block is gone.
Block1 ==
  [ id |-> GenerateId(Path("rel", "a.ts"), 0, 0, "function_declaration", 0),
    filePath |-> <<97, 46, 116, 115>>, content |-> <<102, 40, 41>>,
    language |-> "typescript", blockType |-> "function_declaration",
    symbolName |-> <<102>> ]
Block2 ==
  [ id |-> GenerateId(Path("rel", "b.py"), 0, 50, "class_definition", 0),
    filePath |-> <<98, 46, 112, 121>>,
    content |-> [i \in 1..101 |-> IF i % 2 = 1 THEN 120 ELSE 10],
    language |-> "python", blockType |-> "class_definition",
    symbolName |-> << >> ]
GoneId == GenerateId(Path("rel", "a.ts"), 1, 1, "function_declaration", 0)

InitHybrid ==
  /\ fsContent = [f \in Files |-> NoFile]
  /\ fsMtime = [f \in Files |-> 0]
  /\ edits = 0
  /\ code_blocks = {Block1, Block2}
  /\ code_fts = SetToBag({FtsRow(Block1), FtsRow(Block2)})
  /\ vector_map = { [label |-> 0, block_id |-> Block1.id], [label |-> 1, block_id |-> Block2.id],
                    [label |-> 2, block_id |-> GoneId] }
  /\ files = {}
  /\ hnswFile = [live |-> {0, 1, 2}, dead |-> {}, max |-> MaxElements]
  /\ cacheFile = NoEntry /\ stateFile = NoEntry
  /\ pcMain = "down" /\ opts = [force |-> FALSE, watch |-> FALSE] /\ dbOpen = FALSE
  /\ initialized = FALSE
  /\ hnsw = EmptyHnsw /\ nextLabel = 0 /\ cache = EmptyCache /\ dirty = FALSE
  /\ state = DefaultState
  /\ calls = << >> /\ tasks = << >>
  /\ watching = FALSE /\ fsEvents = {} /\ timers = << >>
  /\ debounceTimers = [f \in Files |-> 0]
  /\ embedCalls = 0 /\ runs = << >> /\ runStart = 0
  /\ searches = 0 /\ lastSearch = NoSearch
  /\ embCache = {} /\ embedOut = NoEmbed
  /\ search_stats = {} /\ hybridOut = NoHybrid
  /\ chunkOut = NoChunk
  /\ cachePc = "new" /\ saving = NoEntry /\ cacheOps = [f \in Files |-> NoOp]

\* The queries "f", "zz", "AND" and "!".
Queries == { <<102>>, <<122, 122>>, <<65, 78, 68>>, <<33>> }

\* Sequences without repetition of at most MaxHits elements of S.
ListsOf(S) ==
  UNION { { q \in [1..n -> S] : \A i, j \in 1..n : i # j => q[i] # q[j] } : n \in 0..MaxHits }

\* What searchKNN may return: distinct labels, cosine distances 0, 0.64
\* and 1.2.
Distances == {0, 640, 1200}
KnnLists ==
  { q \in ListsOf([label : {0, 1, 2}, distance : Distances]) :
      \A i, j \in 1..Len(q) : i # j => q[i].label # q[j].label }

\* What the full-text engine may return: bm25 scores -5.0 and 12.0.
Bm25Scores == {-5000, 12000}
FtsLists == ListsOf([blockId : {Block1.id, Block2.id}, score : Bm25Scores])

\* The options of a search.
SearchOptions ==
  [ limit : 1..MaxHits, language : {"", "TypeScript"}, blockType : {"", "class_definition"},
    minScore : {0, 300}, semanticOnly : BOOLEAN, keywordOnly : BOOLEAN,
    semanticWeight : {700}, keywordWeight : {300}, rerank : BOOLEAN ]

\* The CLI's options (limit aside) with the configured weights.
DefaultOptions ==
  { o \in SearchOptions :
      /\ o.limit = MaxHits /\ o.language = "" /\ o.blockType = "" /\ o.minScore = 300
      /\ ~o.semanticOnly /\ ~o.keywordOnly /\ o.semanticWeight = 700 }

\* The channel outputs that can matter to a search with these options.
KnnFor(options) == IF options.keywordOnly THEN {<< >>} ELSE KnnLists
FtsFor(query, options) ==
  IF options.semanticOnly \/ Sanitize(query) = << >> \/ MatchSyntaxError(Sanitize(query))
  THEN {<< >>} ELSE FtsLists

\* One search with any options.
NextHybrid ==
  /\ ~hybridOut.made
  /\ \E query \in Queries, options \in SearchOptions :
       \E knn \in KnnFor(options), fts \in FtsFor(query, options) :
         HybridSearchCall(query, options, knn, fts)
SpecHybrid == InitHybrid /\ [][NextHybrid]_vars

\* A few searches with the default options, re-ranking on or off.
NextStats ==
  /\ hybridOut.n < MaxStatSearches
  /\ \E query \in Queries, options \in DefaultOptions :
       \E knn \in { q \in KnnFor(options) : Len(q) <= 1 },
          fts \in { q \in FtsFor(query, options) : Len(q) <= 1 } :
         HybridSearchCall(query, options, knn, fts)
SpecStats == InitHybrid /\ [][NextStats]_vars

\* A VectorStore whose index starts with a small capacity, under a sequence
\* of addVector calls.
InitCapacity ==
  \E cap \in 1..MaxCapacity : Boot([f \in Files |-> NoFile], InitIndex(cap))

VectorIds ==
  { GenerateId(Path("rel", f), row, row, "function_declaration", 0) :
      f \in Files, row \in 0..1 }

AddVectorStep(id) ==
  /\ nextLabel < MaxVectors
  /\ LET vs == AddVector(VsNow, id)
     IN  /\ vector_map' = vs.vector_map
         /\ nextLabel' = vs.nextLabel
         /\ hnsw' = vs.hnsw
  /\ UNCHANGED <<fsVars, code_blocks, code_fts, files, diskVars, procVars, cache, dirty,
                 state, workVars, watchVars, obsVars, srchVars, embVars, hybVars, chunkVars, cacheVars>>

NextCapacity == \E id \in VectorIds : AddVectorStep(id)
SpecCapacity == InitCapacity /\ [][NextCapacity]_vars

\* ----------------------------------------------------- CacheManager alone
\* The hash cache of one process after another: constructor, load, then
\* setHash, deleteHash, clear and save in any order, while the files'
\* mtimes change.  save awaits fs.writeFile with the data it serialized
\* before the await and resets `dirty` after it; a processFile task of the
\* watcher may call setHash while the save of indexCommand is pending.

\* CacheManager.has
Has(c, name) == c[name] # NoEntry

\* CacheManager.getHash: entry?.hash
GetHash(c, name) == IF c[name] = NoEntry THEN NoEntry ELSE c[name].hash

\* CacheManager.deleteHash
DeleteHash(c, name) == [c EXCEPT ![name] = NoEntry]

\* CacheManager.clear
Clear(c) == [f \in DOMAIN c |-> NoEntry]

\* CacheManager.load: the entries of file-hashes.json if the file exists,
\* else the map is left as it is.
Load(c, file) == IF file = NoEntry THEN c ELSE file

\* The content hashes handed to setHash.
CacheHashes == { Sha256(<<"fnA">>), Sha256(<<"fnB">>) }

\* Two files that exist.
InitCache == Boot([f \in Files |-> <<"fnA">>], EmptyHnsw)

\* `await cacheManager.load()` of a new process.
CacheLoad ==
  /\ cachePc = "new"
  /\ cache' = Load(cache, cacheFile)
  /\ cachePc' = "ready"
  /\ UNCHANGED <<fsVars, dbVars, diskVars, procVars, hnsw, nextLabel, dirty, state, workVars,
                 watchVars, obsVars, srchVars, embVars, hybVars, chunkVars, saving, cacheOps>>

\* setHash(name, hash, size, lastModified) with the mtime of a stat made
\* now or earlier.
CacheSetHash(name, hash, lastModified) ==
  /\ cachePc = "ready"
  /\ fsContent[name] # NoFile
  /\ cache' = SetHash(cache, name, hash, 1, lastModified)
  /\ dirty' = TRUE
  /\ cacheOps' = [cacheOps EXCEPT ![name] = [op |-> "setHash", hash |-> hash]]
  /\ UNCHANGED <<fsVars, dbVars, diskVars, procVars, hnsw, nextLabel, state, workVars,
                 watchVars, obsVars, srchVars, embVars, hybVars, chunkVars, cachePc, saving>>

\* deleteHash(name)
CacheDeleteHash(name) ==
  /\ cachePc = "ready"
  /\ cache' = DeleteHash(cache, name)
  /\ dirty' = TRUE
  /\ cacheOps' = [cacheOps EXCEPT ![name] = [op |-> "deleteHash"]]
  /\ UNCHANGED <<fsVars, dbVars, diskVars, procVars, hnsw, nextLabel, state, workVars,
                 watchVars, obsVars, srchVars, embVars, hybVars, chunkVars, cachePc, saving>>

\* clear(): called by indexWorkspace under `force`, which has returned
\* before any save of the process begins.
CacheClear ==
  /\ cachePc = "ready"
  /\ saving = NoEntry
  /\ cache' = Clear(cache)
  /\ dirty' = TRUE
  /\ cacheOps' = [f \in Files |-> [op |-> "clear"]]
  /\ UNCHANGED <<fsVars, dbVars, diskVars, procVars, hnsw, nextLabel, state, workVars,
                 watchVars, obsVars, srchVars, embVars, hybVars, chunkVars, cachePc, saving>>

\* save() up to its await: nothing when the cache is clean, else the
\* entries are serialized and fs.writeFile is called.
CacheSaveBegin ==
  /\ cachePc = "ready"
  /\ saving = NoEntry
  /\ dirty
  /\ saving' = [data |-> cache]
  /\ UNCHANGED <<fsVars, dbVars, diskVars, procVars, memVars, workVars, watchVars, obsVars,
                 srchVars, embVars, hybVars, chunkVars, cachePc, cacheOps>>

\* fs.writeFile has written the file and save() resumes: dirty = false.
CacheSaveEnd ==
  /\ saving # NoEntry
  /\ cacheFile' = saving.data
  /\ dirty' = FALSE
  /\ saving' = NoEntry
  /\ UNCHANGED <<fsVars, dbVars, hnswFile, stateFile, procVars, hnsw, nextLabel, cache, state,
                 workVars, watchVars, obsVars, srchVars, embVars, hybVars, chunkVars, cachePc,
                 cacheOps>>

\* The process ends and the next one constructs its CacheManager.
CacheRestart ==
  /\ cachePc = "ready"
  /\ saving = NoEntry
  /\ cache' = EmptyCache
  /\ dirty' = FALSE
  /\ cachePc' = "new"
  /\ cacheOps' = [f \in Files |-> NoOp]
  /\ UNCHANGED <<fsVars, dbVars, diskVars, procVars, hnsw, nextLabel, state, workVars,
                 watchVars, obsVars, srchVars, embVars, hybVars, chunkVars, saving>>

NextCache ==
  \/ CacheLoad
  \/ \E f \in Files, h \in CacheHashes : \E m \in 0..fsMtime[f] : CacheSetHash(f, h, m)
  \/ \E f \in Files : CacheDeleteHash(f)
  \/ CacheClear
  \/ CacheSaveBegin
  \/ CacheSaveEnd
  \/ CacheRestart
  \/ \E f \in Files : TouchFile(f)
  \/ \E f \in Files : UnlinkFile(f)
SpecCache == InitCache /\ [][NextCache]_vars

\* -------------------------------------------------------------- properties
\* Task i leaves its pc `from` in this step.
Leaves(i, from) ==
  /\ i \in DOMAIN tasks /\ i \in DOMAIN tasks'
  /\ tasks[i].pc = from
  /\ tasks'[i].pc # from

\* Task i ends in this step with outcome `pc`.
EndsWith(i, pc) ==
  /\ i \in DOMAIN tasks /\ i \in DOMAIN tasks'
  /\ tasks[i].pc \notin Final
  /\ tasks'[i].pc = pc

\* C1: when the per-file protocol fails on file F, the code_blocks, code_fts
\* and vector_map rows of F afterwards are exactly the rows that existed when
\* the execution started (no execution ends with the old blocks removed and
\* the new ones absent).
C1_FailedIngestKeepsRows ==
  [][\A i \in DOMAIN tasks :
       EndsWith(i, "failed") => RowsOf(tasks[i].filePath.name)' = tasks[i].before]_vars

\* C2: while a per-file task is suspended awaiting the parser or the
\* embedder, a reader sees for the file either exactly the old block set or
\* exactly the new block set.
C2_ReaderSeesOldOrNew ==
  \A i \in DOMAIN tasks :
    tasks[i].pc \in {"parseFile", "embedBatch"} =>
      \/ BlocksOf(tasks[i].filePath.name) = tasks[i].before.code_blocks
      \/ BlocksOf(tasks[i].filePath.name)
           = Range(ChunkFile(tasks[i].filePath, tasks[i].content))

\* C3: when an ingestion of file F succeeds, the code_blocks rows of F are
\* exactly the blocks the chunker produced for F: none of an earlier version
\* remains and none of the current version is missing.
C3_CatalogEqualsChunks ==
  [][\A i \in DOMAIN tasks :
       EndsWith(i, "done") => BlocksOf(tasks[i].filePath.name)' = Range(tasks[i].blocks)]_vars

\* C4: referential integrity: every block_id of a code_fts row and of a
\* vector_map row is the id of a code_blocks row.
C4_ReferentialIntegrity ==
  LET ids == { r.id : r \in code_blocks }
  IN  /\ \A e \in DOMAIN code_fts : e.block_id \in ids
      /\ \A m \in vector_map : m.block_id \in ids

\* C5: when the watcher has handled an unlink event of file F (the timer
\* fired and its processing finished), no code_blocks, code_fts or
\* vector_map row refers to a block of F and the HashCache has no entry for F.
C5_UnlinkRemovesFile ==
  [][\A t \in DOMAIN timers :
       (/\ t \in DOMAIN timers'
        /\ timers[t].kind = "unlink"
        /\ timers[t].st = "running"
        /\ timers'[t].st = "done")
       => /\ RowsOf(timers[t].key)' = NoBefore
          /\ cache'[timers[t].key] = NoEntry]_vars

\* C6: labels are never reused: a label that addVector hands out is not
\* already present in the ANN index, live or tombstoned.
C6_LabelsNeverReused ==
  [][(pcMain # "down" /\ nextLabel' > nextLabel)
       => \A l \in nextLabel..(nextLabel' - 1) : l \notin hnsw.live \cup hnsw.dead]_vars

\* C7: a semantic query raises no error on any label the ANN search
\* returns, and every result it returns is a row of code_blocks (for the
\* hybrid search: the row vector_map maps one of the labels to).
C7_SearchSkipsOrResolves ==
  [][searches' # searches =>
       /\ ~lastSearch'.raised
       /\ lastSearch'.results \subseteq code_blocks'
       /\ lastSearch'.class = "hybrid" =>
            \A b \in lastSearch'.results :
              \E l \in lastSearch'.labels :
                [label |-> l, block_id |-> b.id] \in vector_map']_vars

\* C7 witness: a hybrid search returned a block and skipped another label.
C7_Witness ==
  /\ lastSearch.class = "hybrid"
  /\ lastSearch.results # {}
  /\ Cardinality(lastSearch.labels) > Cardinality(lastSearch.results)

\* C8: when `index` (force = false) runs twice in a row and no file changes
\* from the start of the first run to the end of the second, the second run
\* makes no embedder call and leaves every persisted store as the first run
\* left it.
C8_SecondRunIdempotent ==
  \A k \in 1..(Len(runs) - 1) :
    (/\ ~runs[k].force /\ ~runs[k + 1].force
     /\ ~runs[k].watch /\ ~runs[k + 1].watch
     /\ runs[k].editsStart = runs[k + 1].editsEnd)
    => /\ runs[k + 1].embedCalls = 0
       /\ runs[k + 1].persisted = runs[k].persisted

\* C9: when the per-file protocol finds the content hash equal to the cached
\* hash, it ends without an embedder call and leaves code_blocks, code_fts,
\* vector_map, files and the ANN index unchanged.
C9_UnchangedFileIsSkipped ==
  [][\A i \in DOMAIN tasks :
       (/\ Leaves(i, "stat")
        /\ fsContent[tasks[i].filePath.name] # NoFile
        /\ cache[tasks[i].filePath.name] # NoEntry
        /\ cache[tasks[i].filePath.name].hash = Sha256(tasks[i].content))
       => /\ tasks'[i].pc = "skipped"
          /\ UNCHANGED <<code_blocks, code_fts, vector_map, files, hnsw, embedCalls>>]_vars

\* C9 witness: a task was skipped on a file whose mtime differs from the
\* cached one, with blocks of the file in the catalog.
C9_Witness ==
  \E i \in DOMAIN tasks :
    /\ tasks[i].pc = "skipped"
    /\ cache[tasks[i].filePath.name].lastModified # tasks[i].mtime
    /\ BlocksOf(tasks[i].filePath.name) # {}

\* C10: when the second-chance check finds the hash unchanged, the protocol
\* sets the cache entry's mtime to the file's current mtime, so that the next
\* maybe_changed for the file with that mtime is false.
C10_SkipBumpsMtime ==
  [][\A i \in DOMAIN tasks :
       EndsWith(i, "skipped") =>
         /\ cache'[tasks[i].filePath.name].lastModified = tasks'[i].mtime
         /\ ~MaybeChanged(cache', tasks[i].filePath)]_vars

\* C11: in a run with --force every file the scanner yields is parsed,
\* chunked, embedded and inserted again whatever the HashCache holds: no
\* task of the run's processFiles call ends on the hash test.
C11_ForceReindexesAll ==
  [][\A i \in DOMAIN tasks :
       (/\ opts.force
        /\ pcMain = "indexing"
        /\ calls[tasks[i].call].origin = "index")
       => ~EndsWith(i, "skipped")]_vars

\* C12: a burst of add/change events on one path, each arriving while the
\* timer of the previous one is still pending, submits the path once, after
\* the last event: a timer that fires is the last one created for its path.
C12_BurstSubmittedOnce ==
  [][\A t \in DOMAIN timers :
       (timers[t].st = "pending" /\ timers'[t].st = "running")
       => \A u \in DOMAIN timers : u > t => timers[u].key # timers[t].key]_vars

\* C13: for every path at most one debounce timer is pending, and it is the
\* one recorded in debounceTimers for that path.
C13_OnePendingTimerPerPath ==
  \A t \in DOMAIN timers :
    timers[t].st = "pending" => debounceTimers[timers[t].key] = t

\* C14: at every moment at most `concurrency` per-file ingestion tasks are
\* in flight in the BatchProcessor, over all the processFiles calls made by
\* indexWorkspace and by the watcher.
C14_InFlightBounded == Cardinality(ActiveTasks) <= Concurrency

\* C15: when SIGINT is handled (IndexManager.dispose) the stores are closed
\* only once no per-file task is running, the state and the HashCache are
\* persisted, and afterwards every label of vector_map has its vector in the
\* persisted ANN file.
C15_GracefulShutdown ==
  [][(pcMain = "watching" /\ pcMain' = "disposed") =>
       /\ ActiveTasks = {}
       /\ stateFile' = state
       /\ (IF cacheFile' = NoEntry THEN EmptyCache ELSE cacheFile') = cache
       /\ LET saved == IF hnswFile' = NoEntry THEN EmptyHnsw ELSE hnswFile'
          IN  \A r \in vector_map' : r.label \in saved.live \cup saved.dead]_vars

\* C17: every per-file failure during ingestion increments the error
\* counter of the StateManager by exactly one.
C17_FailureCountsOneError ==
  [][\A i \in DOMAIN tasks :
       EndsWith(i, "failed") => state'.errors = state.errors + 1]_vars

\* C18: a file whose processing fails at any step, the insert transaction
\* included, adds nothing to totalFiles and nothing to totalBlocks.
C18_TotalsOnlySuccessfulFiles ==
  [][\A i \in DOMAIN tasks :
       EndsWith(i, "failed") =>
         /\ state'.totalFiles = state.totalFiles
         /\ state'.totalBlocks = state.totalBlocks]_vars

\* C16: a failure on one file does not keep the others from being
\* processed: when processFiles returns, every file of its input list has
\* been processed to an end, later batches included, and every file that did
\* not fail is in the catalog.
C16_FailureDoesNotStopOthers ==
  [][\A c \in DOMAIN calls :
       (c \in DOMAIN calls' /\ ~calls[c].returned /\ calls'[c].returned) =>
         /\ \A k \in 1..Len(calls[c].paths) :
              \E i \in DOMAIN tasks' :
                /\ tasks'[i].call = c
                /\ tasks'[i].filePath = calls[c].paths[k]
                /\ tasks'[i].pc \in Final
         /\ \A i \in DOMAIN tasks' :
              (tasks'[i].call = c /\ tasks'[i].pc = "done") =>
                \E b \in code_blocks' : b.filePath = tasks'[i].filePath]_vars

\* C16 witness: a returned call in which the file of the first batch failed
\* and the file of a later batch was ingested.
C16_Witness ==
  \E c \in DOMAIN calls :
    /\ calls[c].returned
    /\ \E i, j \in DOMAIN tasks :
         /\ i < j
         /\ tasks[i].call = c /\ tasks[j].call = c
         /\ tasks[i].pc = "failed" /\ tasks[j].pc = "done"

\* C19: no insert fails for capacity reasons: at every addVector the
\* index's count is strictly below the capacity the point is added under,
\* the capacity stays or doubles, and the point is in the index afterwards.
C19_NoInsertFailsForCapacity ==
  [][nextLabel' = nextLabel + 1 =>
       /\ GetCurrentCount(hnsw) < hnsw'.max
       /\ hnsw'.max \in {hnsw.max, 2 * hnsw.max}
       /\ nextLabel \in hnsw'.live
       /\ GetCurrentCount(hnsw') = GetCurrentCount(hnsw) + 1]_vars

\* C19 witness: an index that started with the largest capacity explored,
\* doubled once and holds one point more than that capacity.
C19_Witness ==
  /\ hnsw.max = 2 * MaxCapacity
  /\ GetCurrentCount(hnsw) = MaxCapacity + 1
  /\ nextLabel = MaxCapacity + 1

\* C20: embedding fallback: a call of embedBatch on an initialized embedder
\* does not raise and returns one vector per input text in input order, the
\* zero vector of the configured dimensionality for each text whose
\* embedding failed and the text's own embedding for each other text.
C20_EmbeddingFallback ==
  [][(embedCalls' = embedCalls + 1 /\ initialized) =>
       /\ ~embedOut'.raised
       /\ Len(embedOut'.result) = Len(embedOut'.texts)
       /\ \A k \in 1..Len(embedOut'.texts) :
            embedOut'.result[k] =
              IF k \in embedOut'.failed THEN ZeroVector
              ELSE Embedding(TruncateText(embedOut'.texts[k], MaxTokens))]_vars

\* C29: a node over maxTokens is emitted as N sub-blocks that all appear in
\* the output of chunkFile: their chunk indexes are 0..N-1, they share the
\* node's block type and parent symbol, and their line windows together
\* cover every line of the node.
C29_OversizeNodeFullyEmitted ==
  (chunkOut.made /\ Len(chunkOut.nodes) = 1 /\ Oversize(chunkOut.nodes[1], chunkOut.lines)) =>
    LET node == chunkOut.nodes[1]
        out  == chunkOut.blocks
    IN  /\ { out[k].id.chunkIndex : k \in 1..Len(out) } = 0..(Len(out) - 1)
        /\ \A k \in 1..Len(out) :
             out[k].blockType = node.type /\ out[k].parentSymbol = out[1].parentSymbol
        /\ \A row \in node.startRow..node.endRow :
             \E k \in 1..Len(out) : out[k].startLine <= row + 1 /\ row + 1 <= out[k].endLine

\* C30: every block the chunker emits has start_line <= end_line, both
\* inside the 1-based line range of the node (or file) it was cut from, and
\* at most maxTokens tokens.
C30_BlockWithinNodeAndBudget ==
  chunkOut.made =>
    \A k \in 1..Len(chunkOut.blocks) :
      LET b     == chunkOut.blocks[k]
          first == IF chunkOut.nodes = << >> THEN 1 ELSE chunkOut.nodes[k].startRow + 1
          last  == IF chunkOut.nodes = << >> THEN Len(chunkOut.lines)
                   ELSE chunkOut.nodes[k].endRow + 1
      IN  /\ b.startLine <= b.endLine
          /\ first <= b.startLine /\ b.endLine <= last
          /\ b.tokens <= ChunkMaxTokens

\* C21: a hybrid search with semantic_only and keyword_only both set runs
\* neither channel and returns an empty list.
C21_BothOnlyFlagsReturnEmpty ==
  (hybridOut.made /\ hybridOut.options.semanticOnly /\ hybridOut.options.keywordOnly) =>
    ~hybridOut.raised /\ hybridOut.results = << >>

C23_ResultsReachMinScore ==
  (hybridOut.made /\ ~hybridOut.raised /\ hybridOut.options.minScore # 0) =>
    \A k \in 1..Len(hybridOut.results) :
      hybridOut.results[k].finalScore >= hybridOut.options.minScore

\* C24: the list a hybrid search returns is ordered by non-increasing final
\* score, and with re-ranking enabled every final score is at most 1.0,
\* for any number of results.
C24_OrderedAndClipped ==
  (hybridOut.made /\ ~hybridOut.raised) =>
    /\ \A k \in 1..(Len(hybridOut.results) - 1) :
         hybridOut.results[k].finalScore >= hybridOut.results[k + 1].finalScore
    /\ hybridOut.options.rerank =>
         \A k \in 1..Len(hybridOut.results) : hybridOut.results[k].finalScore <= One

\* C25: every completed hybrid search adds one row to search_stats.
C25_EverySearchAddsOneStat ==
  [][(hybridOut'.n = hybridOut.n + 1 /\ ~hybridOut'.raised) =>
       Cardinality(search_stats') = Cardinality(search_stats) + 1]_vars

\* C26: the keyword score attached to a search result lies in [0, 1],
\* whatever the sign of the score the full-text engine returned.
C26_KeywordScoreInUnitInterval ==
  hybridOut.made =>
    \A k \in 1..Len(hybridOut.results) :
      hybridOut.results[k].keywordScore >= 0 /\ hybridOut.results[k].keywordScore <= One

\* C27: fusion monotonicity: for a hit A of the semantic channel only and a
\* hit B of the keyword channel only, if A's fused score is at least B's
\* under one semantic weight, it is at least B's under every greater one.
C27_FusionMonotone ==
  hybridOut.made =>
    LET sem == SemanticSearchFrom(hybridOut.knn, 1)
        kw  == KeywordSearchFrom(hybridOut.fts, 1)
        kwt == hybridOut.options.keywordWeight
        Fused(w) == MergeResults(sem, kw, w, kwt)
        ScoreOf(w, id) == Fused(w)[IndexOfBlock(Fused(w), id)].finalScore
    IN  \A a \in 1..Len(sem), b \in 1..Len(kw) :
          ( /\ \A j \in 1..Len(kw) : kw[j].blockId # sem[a].blockId
            /\ \A i \in 1..Len(sem) : sem[i].blockId # kw[b].blockId ) =>
            \A w1, w2 \in {700, 900} :
              (w1 < w2 /\ ScoreOf(w1, sem[a].blockId) >= ScoreOf(w1, kw[b].blockId)) =>
                ScoreOf(w2, sem[a].blockId) >= ScoreOf(w2, kw[b].blockId)

\* C28: keyword search never raises on a raw query: a query without tokens
\* gives the empty list and any other query gives a result list.
C28_KeywordSearchNeverRaises ==
  hybridOut.made =>
    LET out == FullTextSearch(hybridOut.query, hybridOut.fts)
    IN  /\ out.kind = "ok"
        /\ Sanitize(hybridOut.query) = << >> => out.rows = << >>

\* C31: chunkFile never returns an empty list; for a tree without semantic
\* node it returns exactly one block of type "file" from line 1 to the last
\* line with the whole text, and when a semantic block is emitted it
\* returns no "file" block.
C31_ChunkerFallback ==
  chunkOut.made =>
    /\ Len(chunkOut.blocks) >= 1
    /\ chunkOut.nodes = << >> =>
         /\ Len(chunkOut.blocks) = 1
         /\ chunkOut.blocks[1].blockType = "file"
         /\ chunkOut.blocks[1].startLine = 1
         /\ chunkOut.blocks[1].endLine = Len(chunkOut.lines)
         /\ chunkOut.blocks[1].content = chunkOut.lines
    /\ chunkOut.nodes # << >> =>
         \A k \in 1..Len(chunkOut.blocks) : chunkOut.blocks[k].blockType # "file"

\* C31 witness: a file of several lines without semantic node was chunked
\* into its file block.
C31_Witness ==
  /\ chunkOut.made
  /\ chunkOut.nodes = << >>
  /\ Len(chunkOut.lines) > 1
  /\ Len(chunkOut.blocks) = 1
  /\ chunkOut.blocks[1].blockType = "file"

\* C32: the block id is a function of the block's own file path, start
\* line, end line, block type and chunk index: two emitted blocks that
\* agree on the five have the same id.
C32_IdDeterminedByBlockAttributes ==
  chunkOut.made =>
    \A i, j \in 1..Len(chunkOut.blocks) :
      LET a == chunkOut.blocks[i]
          b == chunkOut.blocks[j]
      IN  ( /\ a.filePath = b.filePath
            /\ a.startLine = b.startLine
            /\ a.endLine = b.endLine
            /\ a.blockType = b.blockType
            /\ a.id.chunkIndex = b.id.chunkIndex ) => a.id = b.id

\* C40: the blocks chunkFile emits for one file have pairwise distinct
\* ids, so that inserting them gives one code_blocks row per block.
C40_EmittedIdsDistinct ==
  chunkOut.made =>
    /\ \A i, j \in 1..Len(chunkOut.blocks) :
         i # j => chunkOut.blocks[i].id # chunkOut.blocks[j].id
    /\ Cardinality({ chunkOut.blocks[k].id : k \in 1..Len(chunkOut.blocks) })
         = Len(chunkOut.blocks)

\* C33: the hash cache answers from the most recent record: after
\* setHash(p, h, ...) has(p) is true and getHash(p) is h until the next
\* setHash, deleteHash or clear that hits p; filterChangedFiles counts p as
\* unchanged exactly when an entry of p exists whose lastModified equals
\* the file's current mtime, so a path without entry counts as changed.
C33_CacheAnswersLastRecord ==
  \A f \in Files :
    /\ cacheOps[f].op = "setHash" =>
         Has(cache, f) /\ GetHash(cache, f) = cacheOps[f].hash
    /\ ~MaybeChanged(cache, Path("rel", f)) <=>
         ( /\ Has(cache, f)
           /\ fsContent[f] # NoFile
           /\ cache[f].lastModified = fsMtime[f] )

\* C33 witness: a.ts was recorded and saved, then modified, so that its
\* entry is stale, while b.ts was never recorded.
C33_Witness ==
  /\ cachePc = "ready" /\ ~dirty
  /\ cacheOps["a.ts"].op = "setHash"
  /\ Has(cache, "a.ts")
  /\ fsContent["a.ts"] # NoFile
  /\ cache["a.ts"].lastModified # fsMtime["a.ts"]
  /\ MaybeChanged(cache, Path("rel", "a.ts"))
  /\ ~Has(cache, "b.ts")
  /\ MaybeChanged(cache, Path("rel", "b.ts"))

\* C34: the cache file follows the dirty flag: once the cache is loaded, a
\* clean cache (dirty = false) holds the entries of file-hashes.json.
C34_CleanCacheEqualsDisk ==
  (cachePc = "ready" /\ ~dirty) => cache = Load(EmptyCache, cacheFile)


C36_CacheCoherentWithCatalog ==
  ActiveTasks = {} =>
    \A f \in Files :
      cache[f] # NoEntry =>
        \E c \in Contents :
          /\ Sha256(c) = cache[f].hash
          /\ { b.contentHash : b \in BlocksOf(f) }
               = { b.contentHash : b \in Range(ChunkFile(Path("rel", f), c)) }


\* C37: two per-file tasks for the same path never interleave their
\* delete, parse/embed and insert steps: while one task of file F is between
\* its delete transaction and its insert transaction no other task of F is.
C37_SamePathTasksDoNotInterleave ==
  \A i, j \in DOMAIN tasks :
    (i < j /\ tasks[i].filePath.name = tasks[j].filePath.name) =>
      ~(tasks[i].pc \in {"parseFile", "embedBatch"} /\ tasks[j].pc \in {"parseFile", "embedBatch"})


\* C38: after FileWatcher.stop has completed the watcher never invokes the
\* Ingestor again: no processFiles call is made once dispose has stopped
\* the watcher.
C38_StopCancelsEveryTimer ==
  [][pcMain = "disposed" => Len(calls') = Len(calls)]_vars


\* C39: isIndexing is true only while an indexWorkspace call is executing:
\* once the call has returned the flag is false, and the state persisted in
\* state.json never records isIndexing = true.
C39_IsIndexingOnlyWhileIndexing ==
  /\ pcMain = "returned" => ~state.isIndexing
  /\ stateFile # NoEntry => ~stateFile.isIndexing

====
